---- MODULE Spec2Model ----
(***************************************************************************)
(* Model of the ai-happenings acquisition pipeline:                        *)
(*   - utils/action_tracker.py   ActionBalanceTracker, UsageLimiter        *)
(*   - main_with_balance.py      run_pipeline_with_balance                 *)
(*   - scrapers/web_scraper.py   WebScraper (scrape_source, _scrape_web,   *)
(*                               _scrape_rss, scrape_all_sources,          *)
(*                               _calculate_relevance_score)               *)
(*   - prioritizers/article_prioritizer.py   ArticlePrioritizer            *)
(*   - analyzers/ai_analyzer.py  AIAnalyzer (analyze_article,              *)
(*                               batch_analyze, _extract_relevance_score)  *)
(*                                                                         *)
(* Credit amounts are integers counted in half credits: the cost table's   *)
(* smallest entry is 0.5 credit, and every amount the program adds or      *)
(* compares is a multiple of it, so the float arithmetic is exact.         *)
(* Relevance scores are integers counted in thousandths (round(x, 3)),     *)
(* priority scores integers counted in hundredths of a point.              *)
(***************************************************************************)
EXTENDS Integers, Sequences, FiniteSets, TLC

VARIABLES
    \* ---- UsageLimiter / ActionBalanceTracker / pipeline ----
    usage_limiter,    \* [daily_limit, daily_usage, day_start]
    today,            \* datetime.now().date(), as a day number
    session_actions,  \* ActionBalanceTracker.session_actions (action records)
    last_op,          \* the last direct call of a UsageLimiter method
    num_sources,      \* len(self.scraper.sources) of the pipeline's scraper
    pl_pc,            \* position of run_pipeline_with_balance
    pl_articles,      \* len(articles) in run_pipeline_with_balance
    pl_extracted,     \* iterations done of the content-extraction loop
    pl_analyzed,      \* len(analyzed_articles)
    pl_result,        \* the returned result: "none" | "success" | "failure"
    pl_error,         \* result["error"], "" when absent
    \* ---- WebScraper ----
    settings,         \* scraping_settings / output_settings read by the run
    seen_urls,        \* WebScraper.seen_urls
    scr_pc,           \* position of scrape_all_sources
    task_pc,          \* per source: position of its scrape_source coroutine
    attempt,          \* per source: loop index `attempt` of scrape_source
    fetch_log,        \* per source: outcome of each fetch made, in order
    signals,          \* per source: the fetch events sent to track_signal, in order
    waits,            \* per source: the retry sleeps made, in order
    task_result,      \* per source: what gather() collected for the task
    new_once,         \* links for which some _is_new_article call said True
    new_again,        \* links for which a later call said True once more
    passed,           \* <<source, link>> of processed candidates scoring >= min
    report,           \* successful_sources, failed_sources, articles_by_source
    all_articles,     \* the list scrape_all_sources returns
    scoring_weights,  \* WebScraper.scoring_weights (config 'scoring_weights')
    \* ---- direct calls of _calculate_relevance_score ----
    score_args,       \* the two articles handed to the scorer
    score_result,     \* [done, a, b]: the scores returned for them
    \* ---- direct calls of ArticlePrioritizer.prioritize_articles ----
    rank_in,          \* the list of articles handed to prioritize_articles
    rank_out,         \* [done, articles]: the list it returned
    rank_top,         \* [done, count, articles]: a get_top_articles call on that list
    \* ---- direct calls of AIAnalyzer.batch_analyze ----
    an_in,            \* the list of articles handed to batch_analyze
    an_log,           \* what the chat-completion call did for each article so far
    an_out,           \* analyzed_articles
    an_pc,            \* "idle" | "running" | "returned" | "raised"
    \* ---- direct calls of the ActionBalanceTracker methods ----
    tracker_op,       \* the last direct call: its arguments and what it gave
    \* ---- one element of a listing page or one entry of a feed ----
    parse_in,         \* [source, element]: what the page or feed holds
    parse_out         \* [done, accepted, title_len, link]: what became of it

ledger_vars == <<usage_limiter, today, session_actions, last_op, num_sources,
                 pl_pc, pl_articles, pl_extracted, pl_analyzed, pl_result, pl_error>>
scraper_vars == <<settings, seen_urls, scr_pc, task_pc, attempt, fetch_log, signals, waits,
                  task_result, new_once, new_again, passed, report, all_articles>>
analyzer_vars == <<an_in, an_log, an_out, an_pc>>
score_vars == <<scoring_weights, score_args, score_result>>
rank_vars == <<rank_in, rank_out, rank_top>>
parse_vars == <<parse_in, parse_out>>
call_vars == <<score_vars, rank_vars, analyzer_vars, tracker_op, parse_vars>>
score_frame == <<ledger_vars, scraper_vars, rank_vars, analyzer_vars, tracker_op,
                 parse_vars>>
rank_frame == <<ledger_vars, scraper_vars, score_vars, analyzer_vars, tracker_op,
                parse_vars>>
analyzer_frame == <<ledger_vars, scraper_vars, score_vars, rank_vars, tracker_op,
                    parse_vars>>
parse_frame == <<ledger_vars, scraper_vars, score_vars, rank_vars, analyzer_vars,
                 tracker_op>>
vars == <<ledger_vars, scraper_vars, call_vars>>

Max(a, b) == IF a >= b THEN a ELSE b
Min(a, b) == IF a <= b THEN a ELSE b

(***************************************************************************)
(* Bounds of the model                                                     *)
(***************************************************************************)
MaxDay == 2          \* the clock runs over days 0..MaxDay
MaxLimit == 10       \* direct-call runs: daily_limit in 0..MaxLimit
MaxCredits == 6      \* direct-call runs: amounts in 0..MaxCredits
MaxUsage == 12       \* direct-call runs: consume_credits stops being called here
MaxSources == 3      \* pipeline runs: 1..MaxSources configured sources
MaxArticles == 17    \* pipeline runs: 0..MaxArticles scraped articles

(***************************************************************************)
(* Credits.  Cr(n) is n credits, HalfCr is 0.5 credit.                     *)
(***************************************************************************)
Cr(n) == 2 * n
HalfCr == Cr(1) \div 2


(***************************************************************************)
(* ActionBalanceTracker                                                    *)
(***************************************************************************)
\* self.action_costs.get(action_name, 1)
\* mutant of action_costs: every action has the cost of one that is not in the
\* table
action_costs_default_only(action_name) == Cr(1)

action_costs(action_name) ==
    CASE action_name = "scrape_source"    -> Cr(1)
      [] action_name = "extract_content"  -> HalfCr
      [] action_name = "analyze_article"  -> Cr(10)
      [] action_name = "generate_summary" -> Cr(15)
      [] action_name = "prioritize_batch" -> Cr(2)
      [] action_name = "api_call"         -> Cr(5)
      [] OTHER                            -> Cr(1)

\* a metadata dict with these keys; the values play no part and are 0
Meta(keys) == [k \in keys |-> 0]

\* track_action, lines 48-57: the action_record appended to session_actions
\* (timestamp: the day of datetime.now())
track_action(actions, action_name, now, metadata) ==
    Append(actions, [action |-> action_name, cost |-> action_costs(action_name),
                     timestamp |-> now, metadata |-> metadata])

RECURSIVE track_actions(_, _, _, _, _)
\* `count` consecutive track_action(action_name, metadata) calls
track_actions(actions, action_name, now, metadata, count) ==
    IF count = 0 THEN actions
    ELSE track_actions(track_action(actions, action_name, now, metadata),
                       action_name, now, metadata, count - 1)

RECURSIVE get_session_cost(_)
\* sum(action["cost"] for action in self.session_actions)
get_session_cost(actions) ==
    IF actions = <<>> THEN 0
    ELSE Head(actions).cost + get_session_cost(Tail(actions))

\* track_action, lines 60-70: the data dict handed to track_signal, for the
\* session_actions after the append.  The metadata is spread into the dict
\* literal after its own keys, so a metadata key of the same name replaces
\* the value.  (action_type and session_id are left out.)
track_signal_data(actions, action_name, metadata) ==
    LET own == [action_cost |-> action_costs(action_name),
                cumulative_cost |-> get_session_cost(actions)]
    IN  [k \in DOMAIN own \cup DOMAIN metadata |->
            IF k \in DOMAIN metadata THEN metadata[k] ELSE own[k]]

RECURSIVE SumPlanned(_, _)
SumPlanned(planned, names) ==
    IF names = {} THEN 0
    ELSE LET a == CHOOSE x \in names : TRUE
         IN  action_costs(a) * planned[a] + SumPlanned(planned, names \ {a})

\* the action names of the cost table
TableNames == {"scrape_source", "extract_content", "analyze_article",
               "generate_summary", "prioritize_batch", "api_call"}

\* mutant of estimate_action_cost: an action that is not in the table is
\* left out of the sum
estimate_action_cost_table_only(planned) ==
    SumPlanned(planned, DOMAIN planned \cap TableNames)

\* estimate_action_cost(planned_actions)["total_estimated_cost"]
estimate_action_cost(planned) == SumPlanned(planned, DOMAIN planned)

\* planned_actions of run_pipeline_with_balance
planned_actions ==
    [a \in {"scrape_source", "analyze_article", "prioritize_batch"} |->
        CASE a = "scrape_source"    -> 3
          [] a = "analyze_article"  -> 15
          [] a = "prioritize_batch" -> 1]

(***************************************************************************)
(* UsageLimiter.  Each method is a function of the limiter's fields (and   *)
(* of the clock where the method reads it).                                *)
(***************************************************************************)
\* UsageLimiter.__init__
new_limiter(daily_limit, now) ==
    [daily_limit |-> daily_limit, daily_usage |-> 0, day_start |-> now]

\* mutant of check_limit_reset: the new day is noted but the usage is kept
check_limit_reset_keeps_usage(ul, now) ==
    IF now # ul.day_start THEN [ul EXCEPT !.day_start = now] ELSE ul

\* check_limit, lines 266-270: the limiter after the new-day reset
check_limit_reset(ul, now) ==
    IF now # ul.day_start
    THEN [ul EXCEPT !.daily_usage = 0, !.day_start = now]
    ELSE ul

\* mutant of check_limit_compare: >= in place of >
check_limit_compare_strict(ul, required_credits) ==
    IF ul.daily_usage + required_credits >= ul.daily_limit THEN FALSE ELSE TRUE

\* check_limit, lines 272-284: the comparison, on the limiter after the reset
check_limit_compare(ul, required_credits) ==
    IF ul.daily_usage + required_credits > ul.daily_limit THEN FALSE ELSE TRUE

\* check_limit's return value
check_limit(ul, now, required_credits) ==
    check_limit_compare(check_limit_reset(ul, now), required_credits)

\* mutant of consume_credits: the usage stops at the limit
consume_credits_capped(ul, credits) ==
    [ul EXCEPT !.daily_usage = Min(Max(@, ul.daily_limit), @ + credits)]

\* consume_credits: the limiter afterwards
consume_credits(ul, credits) ==
    [ul EXCEPT !.daily_usage = @ + credits]

\* mutant of get_remaining_balance: the difference is returned without max(0, ..)
get_remaining_balance_unclamped(ul) == ul.daily_limit - ul.daily_usage

\* get_remaining_balance's return value
get_remaining_balance(ul) == Max(0, ul.daily_limit - ul.daily_usage)


RECURSIVE consume_each(_, _, _)
\* `count` consecutive consume_credits(credits) calls (the pipeline's loops)
consume_each(ul, credits, count) ==
    IF count = 0 THEN ul
    ELSE consume_each(consume_credits(ul, credits), credits, count - 1)

(***************************************************************************)
(* Initial values of the two halves of the state                           *)
(***************************************************************************)
NoOp == [op |-> "none", arg |-> 0, ok |-> FALSE, bal |-> 0,
         pre |-> new_limiter(0, 0), now |-> 0]

LedgerIdle(limit, n) ==
    /\ today = 0
    /\ usage_limiter = new_limiter(limit, today)
    /\ session_actions = <<>>
    /\ last_op = NoOp
    /\ num_sources = n
    /\ pl_pc = "idle"
    /\ pl_articles = 0
    /\ pl_extracted = 0
    /\ pl_analyzed = 0
    /\ pl_result = "none"
    /\ pl_error = ""

(***************************************************************************)
(* The clock: the local date moves on to the next day.                     *)
(***************************************************************************)
DayRollover ==
    /\ today < MaxDay
    /\ today' = today + 1
    /\ UNCHANGED <<usage_limiter, session_actions, last_op, num_sources, pl_pc,
                   pl_articles, pl_extracted, pl_analyzed, pl_result, pl_error>>
    /\ UNCHANGED <<scraper_vars, call_vars>>

(***************************************************************************)
(* Direct calls of the UsageLimiter methods, in any order                  *)
(***************************************************************************)
pipeline_vars == <<session_actions, num_sources, pl_pc, pl_articles, pl_extracted,
                   pl_analyzed, pl_result, pl_error>>

CheckLimit ==
    \E x \in 0..MaxCredits :
        /\ usage_limiter' = check_limit_reset(usage_limiter, today)
        /\ last_op' = [op |-> "check_limit", arg |-> x,
                       ok |-> check_limit(usage_limiter, today, x), bal |-> 0,
                       pre |-> usage_limiter, now |-> today]
        /\ UNCHANGED <<today, pipeline_vars, scraper_vars, call_vars>>

ConsumeCredits ==
    \E c \in 0..MaxCredits :
        /\ usage_limiter.daily_usage + c <= MaxUsage
        /\ usage_limiter' = consume_credits(usage_limiter, c)
        /\ last_op' = [op |-> "consume_credits", arg |-> c, ok |-> TRUE, bal |-> 0,
                       pre |-> usage_limiter, now |-> today]
        /\ UNCHANGED <<today, pipeline_vars, scraper_vars, call_vars>>

GetRemainingBalance ==
    /\ last_op' = [op |-> "get_remaining_balance", arg |-> 0, ok |-> TRUE,
                   bal |-> get_remaining_balance(usage_limiter),
                   pre |-> usage_limiter, now |-> today]
    /\ UNCHANGED <<usage_limiter, today, pipeline_vars, scraper_vars, call_vars>>

(***************************************************************************)
(* run_pipeline_with_balance, one action per stretch of code between two   *)
(* awaits.                                                                 *)
(***************************************************************************)
\* daily_credit_limit values of the pipeline runs (1000 is the default)
PipelineLimits == {Cr(100), Cr(155), Cr(160), Cr(1000)}

\* mutant of ReturnFailure: the failure is noted but the run goes on to scrape
ReturnFailure_goes_on(error) ==
    /\ pl_result' = "failure"
    /\ pl_error' = error
    /\ pl_pc' = "scraping"

\* _create_result(False, error) and the blocked-by-limit result
ReturnFailure(error) ==
    /\ pl_result' = "failure"
    /\ pl_error' = error
    /\ pl_pc' = "done"

\* lines 63-101: track pipeline_start, estimate, pre-flight check_limit
PipelineStart ==
    /\ pl_pc = "idle"
    /\ session_actions' = track_action(session_actions, "pipeline_start", today,
                                       Meta({"customer_id"}))
    /\ usage_limiter' = check_limit_reset(usage_limiter, today)
    /\ IF ~check_limit(usage_limiter, today, estimate_action_cost(planned_actions))
       THEN ReturnFailure("Daily credit limit would be exceeded")
       ELSE /\ pl_pc' = "scraping"
            /\ UNCHANGED <<pl_result, pl_error>>
    /\ UNCHANGED <<today, last_op, num_sources, pl_articles, pl_extracted, pl_analyzed>>
    /\ UNCHANGED <<scraper_vars, call_vars>>

\* lines 106-116: scrape_all_sources returns k articles; one scrape_source
\* action and one credit per configured source; no articles is a failure
ScrapeReturns ==
    /\ pl_pc = "scraping"
    /\ \E k \in 0..MaxArticles :
        /\ session_actions' = track_actions(session_actions, "scrape_source", today,
                                            Meta({}), num_sources)
        /\ usage_limiter' = consume_each(usage_limiter, Cr(1), num_sources)
        /\ pl_articles' = k
        /\ IF k = 0
           THEN ReturnFailure("No articles found")
           ELSE /\ pl_pc' = "extracting"
                /\ UNCHANGED <<pl_result, pl_error>>
    /\ UNCHANGED <<today, last_op, num_sources, pl_extracted, pl_analyzed>>
    /\ UNCHANGED <<scraper_vars, call_vars>>

\* mutant of analysis_articles: the list is not cut when the check fails
analysis_articles_uncut(ul, now, n_articles) == n_articles

\* lines 133-139: the check before the analysis and the truncation of articles
\* (the limiter after check_limit, and len(articles) afterwards)
analysis_articles(ul, now, n_articles) ==
    IF ~check_limit(ul, now, n_articles * Cr(10))
    THEN Min(n_articles, get_remaining_balance(check_limit_reset(ul, now)) \div Cr(10))
    ELSE n_articles

\* lines 120-139: one iteration of the extraction loop; after the last one the
\* code runs on, without an await, to the analysis check and batch_analyze
ExtractOne ==
    /\ pl_pc = "extracting"
    /\ pl_extracted < pl_articles
    /\ pl_extracted' = pl_extracted + 1
    /\ session_actions' = track_action(session_actions, "extract_content", today,
                                       Meta({"article_title"}))
    /\ LET ul == consume_credits(usage_limiter, HalfCr)
       IN  IF pl_extracted + 1 = pl_articles
           THEN /\ usage_limiter' = check_limit_reset(ul, today)
                /\ pl_articles' = analysis_articles(ul, today, pl_articles)
                /\ pl_pc' = "analyzing"
           ELSE /\ usage_limiter' = ul
                /\ UNCHANGED <<pl_articles, pl_pc>>
    /\ UNCHANGED <<today, last_op, num_sources, pl_analyzed, pl_result, pl_error>>
    /\ UNCHANGED <<scraper_vars, call_vars>>

\* lines 141-168: batch_analyze returns one analysed article per article;
\* 10 credits each; prioritize_articles; 2 credits; generate_summary_report
AnalysisReturns ==
    /\ pl_pc = "analyzing"
    /\ pl_analyzed' = pl_articles
    /\ session_actions' = track_action(
            track_actions(session_actions, "analyze_article", today,
                          Meta({"model", "tokens"}), pl_articles),
            "prioritize_batch", today, Meta({"article_count"}))
    /\ usage_limiter' = consume_credits(
            consume_each(usage_limiter, Cr(10), pl_articles), Cr(2))
    /\ pl_pc' = "summarizing"
    /\ UNCHANGED <<today, last_op, num_sources, pl_articles, pl_extracted,
                   pl_result, pl_error>>
    /\ UNCHANGED <<scraper_vars, call_vars>>

\* lines 170-238: 15 credits for the summary, the report, save_posts (which
\* may raise: the except clause returns a failure), the result
SummaryReturns ==
    /\ pl_pc = "summarizing"
    /\ session_actions' = track_action(session_actions, "generate_summary", today,
                                       Meta({}))
    /\ usage_limiter' = consume_credits(usage_limiter, Cr(15))
    /\ \E saved \in BOOLEAN :
        IF saved
        THEN /\ pl_result' = "success"
             /\ pl_error' = ""
             /\ pl_pc' = "done"
        ELSE ReturnFailure("save_posts raised")
    /\ UNCHANGED <<today, last_op, num_sources, pl_articles, pl_extracted, pl_analyzed>>
    /\ UNCHANGED <<scraper_vars, call_vars>>


(***************************************************************************)
(* WebScraper: configuration                                               *)
(***************************************************************************)
MaxCands == 2        \* bound: a fetched page or feed holds 0..MaxCands candidates

max_retries == 3               \* settings.get('max_retries', 3): the default
retry_delay == 5               \* settings.get('retry_delay', 5)
max_articles_per_source == 30  \* settings.get('max_articles_per_source', 30)
rss_max_items == 50            \* settings.get('rss_max_items', 50)
min_relevance_score == 300     \* 0.3, in thousandths
NORMALIZATION == 50            \* score / 50.0

\* self.sources: two listing sources and one feed
sources == << [name |-> "s1", type |-> "web"],
              [name |-> "s2", type |-> "web"],
              [name |-> "s3", type |-> "rss"] >>
Src == 1..Len(sources)

\* self.keywords: category -> terms.  The primary terms are those of the
\* default configuration; one secondary term is configured, the other
\* categories are empty.
keywords == [category \in {"primary", "secondary", "tertiary", "technology", "business"} |->
                CASE category = "primary"   ->
                        {"ai", "artificial intelligence", "machine learning"}
                  [] category = "secondary" -> {"agent"}
                  [] OTHER                  -> {}]

\* 'scoring_weights' of the default configuration (lines 89-94)
DefaultScoringWeights ==
    [primary_keyword |-> 10, secondary_keyword |-> 5, tertiary_keyword |-> 2,
     title_multiplier |-> 2]

\* self.scoring_weights.get(f"{category}_keyword", 1.0)
scoring_weight(category) ==
    CASE category = "primary"   -> scoring_weights.primary_keyword
      [] category = "secondary" -> scoring_weights.secondary_keyword
      [] category = "tertiary"  -> scoring_weights.tertiary_keyword
      [] OTHER                  -> 1

\* self.scoring_weights.get('title_multiplier', 2.0)
title_multiplier == scoring_weights.title_multiplier

(***************************************************************************)
(* _calculate_relevance_score.  A text is the set of configured terms that *)
(* occur in it (`keyword in title`).  The result is in thousandths; the    *)
(* weights are whole numbers, so score / 50 has at most 2 decimals and     *)
(* round(x, 3) changes nothing.                                            *)
(***************************************************************************)
RECURSIVE SumTerms_flat(_, _, _, _)
\* mutant of SumTerms: a match in the title is worth the plain weight
SumTerms_flat(terms, weight, title, excerpt) ==
    IF terms = {} THEN [score |-> 0, matches |-> 0]
    ELSE LET k    == CHOOSE x \in terms : TRUE
             rest == SumTerms_flat(terms \ {k}, weight, title, excerpt)
         IN  IF k \in title \/ k \in excerpt
             THEN [score |-> rest.score + weight, matches |-> rest.matches + 1]
             ELSE rest

RECURSIVE SumTerms_both(_, _, _, _)
\* mutant of SumTerms: the excerpt is checked with `if`, not `elif`, so a term
\* of the title that is in the excerpt too is counted a second time
SumTerms_both(terms, weight, title, excerpt) ==
    IF terms = {} THEN [score |-> 0, matches |-> 0]
    ELSE LET k    == CHOOSE x \in terms : TRUE
             rest == SumTerms_both(terms \ {k}, weight, title, excerpt)
             t    == IF k \in title THEN 1 ELSE 0
             e    == IF k \in excerpt THEN 1 ELSE 0
         IN  [score |-> rest.score + t * weight * title_multiplier + e * weight,
              matches |-> rest.matches + t + e]

RECURSIVE SumTerms(_, _, _, _)
\* the inner loop, lines 385-393: [score, matches] added by one category
SumTerms(terms, weight, title, excerpt) ==
    IF terms = {} THEN [score |-> 0, matches |-> 0]
    ELSE LET k    == CHOOSE x \in terms : TRUE
             rest == SumTerms(terms \ {k}, weight, title, excerpt)
         IN  IF k \in title
             THEN [score |-> rest.score + weight * title_multiplier,
                   matches |-> rest.matches + 1]
             ELSE IF k \in excerpt
             THEN [score |-> rest.score + weight, matches |-> rest.matches + 1]
             ELSE rest

RECURSIVE SumCategories(_, _, _)
\* the outer loop, lines 378-393
SumCategories(categories, title, excerpt) ==
    IF categories = {} THEN [score |-> 0, matches |-> 0]
    ELSE LET c    == CHOOSE x \in categories : TRUE
             rest == SumCategories(categories \ {c}, title, excerpt)
             own  == IF keywords[c] = {} THEN [score |-> 0, matches |-> 0]
                     ELSE SumTerms(keywords[c], scoring_weight(c), title, excerpt)
         IN  [score |-> rest.score + own.score, matches |-> rest.matches + own.matches]

\* mutant of _calculate_relevance_score: score / 50 is returned without min(.., 1.0)
_calculate_relevance_score_unclamped(article) ==
    LET raw == SumCategories(DOMAIN keywords, article.title, article.excerpt)
    IN  IF raw.matches > 0
        THEN (raw.score * 1000) \div NORMALIZATION
        ELSE 0

\* mutant of _calculate_relevance_score: an article without a match gets a
\* neutral score instead of 0.0
_calculate_relevance_score_neutral(article) ==
    LET raw == SumCategories(DOMAIN keywords, article.title, article.excerpt)
    IN  IF raw.matches > 0
        THEN Min((raw.score * 1000) \div NORMALIZATION, 1000)
        ELSE 500

_calculate_relevance_score(article) ==
    LET raw == SumCategories(DOMAIN keywords, article.title, article.excerpt)
    IN  IF raw.matches > 0
        THEN Min((raw.score * 1000) \div NORMALIZATION, 1000)
        ELSE 0

(***************************************************************************)
(* What a fetch can bring back                                             *)
(***************************************************************************)
Links == {"u1", "u2"}

\* title and excerpt of the candidates, as the terms occurring in them:
\* "ai" in the title (0.4), "ai" in the excerpt only (0.2), both terms in the
\* title (0.6)
Texts == { [title |-> {"ai"}, excerpt |-> {}],
           [title |-> {}, excerpt |-> {"ai"}],
           [title |-> {"ai", "agent"}, excerpt |-> {}] }

Candidates == [link : Links, title : {t.title : t \in Texts},
               excerpt : {t.excerpt : t \in Texts}]
CandPool == {c \in Candidates : [title |-> c.title, excerpt |-> c.excerpt] \in Texts}

RECURSIVE SeqsUpTo(_, _)
SeqsUpTo(S, n) ==
    IF n = 0 THEN {<<>>}
    ELSE LET shorter == SeqsUpTo(S, n - 1)
         IN  shorter \cup {Append(q, x) : q \in {r \in shorter : Len(r) = n - 1}, x \in S}

Pages == SeqsUpTo(CandPool, MaxCands)

\* response.raise_for_status() / client.get of a listing source
WebOutcomes == {[kind |-> "ok", page |-> p] : p \in Pages}
               \cup {[kind |-> k, page |-> <<>>] : k \in {"http429", "http_error", "network"}}
\* feedparser.parse of a feed source
RssOutcomes == {[kind |-> "ok", page |-> p] : p \in Pages}
               \cup {[kind |-> "error", page |-> <<>>]}

Take(q, n) == SubSeq(q, 1, Min(Len(q), n))


(***************************************************************************)
(* Deduplication and the per-candidate loop of _scrape_web / _scrape_rss   *)
(***************************************************************************)
\* mutant of _is_new_article: seen_urls is not consulted
_is_new_article_always(link, seen, deduplicate) == TRUE

\* _is_new_article
_is_new_article(link, seen, deduplicate) ==
    IF ~deduplicate THEN TRUE ELSE link \notin seen

\* mutant of process_candidate: the threshold test is dropped, every new
\* candidate is accepted
process_candidate_unfiltered(c, i, d, deduplicate) ==
    LET score == _calculate_relevance_score(c)
        isnew == _is_new_article(c.link, d.seen, deduplicate)
        art   == [link |-> c.link, relevance_score |-> score, source |-> sources[i].name]
        p     == IF score >= min_relevance_score
                 THEN d.passed \cup {<<i, c.link>>} ELSE d.passed
    IN  IF isnew
        THEN [seen     |-> d.seen \cup {c.link},
              articles |-> Append(d.articles, art),
              once     |-> d.once \cup {c.link},
              again    |-> d.again \cup (d.once \cap {c.link}),
              passed   |-> p]
        ELSE [d EXCEPT !.passed = p]

\* mutant of process_candidate: the link of a new candidate is put into
\* seen_urls before the threshold test
process_candidate_marks_first(c, i, d, deduplicate) ==
    LET score == _calculate_relevance_score(c)
        isnew == _is_new_article(c.link, d.seen, deduplicate)
        art   == [link |-> c.link, relevance_score |-> score, source |-> sources[i].name]
        p     == IF score >= min_relevance_score
                 THEN d.passed \cup {<<i, c.link>>} ELSE d.passed
    IN  IF isnew
        THEN [seen     |-> d.seen \cup {c.link},
              articles |-> IF score >= min_relevance_score
                           THEN Append(d.articles, art) ELSE d.articles,
              once     |-> d.once \cup {c.link},
              again    |-> d.again \cup (d.once \cap {c.link}),
              passed   |-> p]
        ELSE [d EXCEPT !.passed = p]

\* lines 195-202 and 284-291: one candidate.  d = [seen, articles, once, again,
\* passed]: seen_urls, the articles list of the call, and the history records
process_candidate(c, i, d, deduplicate) ==
    LET score == _calculate_relevance_score(c)
        isnew == _is_new_article(c.link, d.seen, deduplicate)
        art   == [link |-> c.link, relevance_score |-> score, source |-> sources[i].name]
        p     == IF score >= min_relevance_score
                 THEN d.passed \cup {<<i, c.link>>} ELSE d.passed
    IN  IF isnew
        THEN IF score >= min_relevance_score
             THEN [seen     |-> d.seen \cup {c.link},
                   articles |-> Append(d.articles, art),
                   once     |-> d.once \cup {c.link},
                   again    |-> d.again \cup (d.once \cap {c.link}),
                   passed   |-> p]
             ELSE [d EXCEPT !.once = @ \cup {c.link},
                            !.again = @ \cup (d.once \cap {c.link}),
                            !.passed = p]
        ELSE [d EXCEPT !.passed = p]

RECURSIVE process_candidates(_, _, _, _)
\* the for loop over the candidates of one response
process_candidates(cands, i, d, deduplicate) ==
    IF cands = <<>> THEN d
    ELSE process_candidates(Tail(cands), i,
                            process_candidate(Head(cands), i, d, deduplicate),
                            deduplicate)

\* mutant of _scrape_web: the handler of an HTTP error status lets the
\* exception out to scrape_source instead of returning
_scrape_web_reraises(o, i, d, deduplicate) ==
    IF o.kind = "ok"
    THEN [raised |-> "none", status_code |-> 200, events |-> <<"scraping_completed">>,
          d |-> process_candidates(Take(o.page, max_articles_per_source), i, d, deduplicate)]
    ELSE IF o.kind = "http429"
    THEN [raised |-> "none", status_code |-> 429, events |-> <<"scraping_failed">>, d |-> d]
    ELSE IF o.kind = "http_error"
    THEN [raised |-> "Exception", status_code |-> 500, events |-> <<"scraping_failed">>,
          d |-> d]
    ELSE [raised |-> "none", status_code |-> 0, events |-> <<"scraping_failed">>, d |-> d]

\* mutant of _scrape_web: the handler of line 234 sends no event
_scrape_web_quiet_handler(o, i, d, deduplicate) ==
    IF o.kind = "ok"
    THEN [raised |-> "none", status_code |-> 200, events |-> <<"scraping_completed">>,
          d |-> process_candidates(Take(o.page, max_articles_per_source), i, d, deduplicate)]
    ELSE IF o.kind = "http429"
    THEN [raised |-> "none", status_code |-> 429, events |-> <<"scraping_failed">>, d |-> d]
    ELSE IF o.kind = "http_error"
    THEN [raised |-> "none", status_code |-> 500, events |-> <<"scraping_failed">>, d |-> d]
    ELSE [raised |-> "none", status_code |-> 0, events |-> <<>>, d |-> d]

\* _scrape_web from client.get on: what the call hands to scrape_source for
\* fetch outcome o, and the event it sends (line 206, 220 or 236).  Both
\* except clauses (lines 218 and 234) end in `return articles`, so no outcome
\* makes the call raise.  scraping_started (line 161) is sent before the
\* sleep that precedes client.get.
_scrape_web(o, i, d, deduplicate) ==
    IF o.kind = "ok"
    THEN [raised |-> "none", status_code |-> 200, events |-> <<"scraping_completed">>,
          d |-> process_candidates(Take(o.page, max_articles_per_source), i, d, deduplicate)]
    ELSE IF o.kind = "http429"
    THEN [raised |-> "none", status_code |-> 429, events |-> <<"scraping_failed">>, d |-> d]
    ELSE IF o.kind = "http_error"
    THEN [raised |-> "none", status_code |-> 500, events |-> <<"scraping_failed">>, d |-> d]
    ELSE [raised |-> "none", status_code |-> 0, events |-> <<"scraping_failed">>, d |-> d]

\* _scrape_rss: the same for a feed, the whole call (it has no await): the
\* events of lines 257 and 295 or 309; its except clause (line 307) returns too
_scrape_rss(o, i, d, deduplicate) ==
    IF o.kind = "ok"
    THEN [raised |-> "none", status_code |-> 200,
          events |-> <<"scraping_started", "scraping_completed">>,
          d |-> process_candidates(Take(o.page, rss_max_items), i, d, deduplicate)]
    ELSE [raised |-> "none", status_code |-> 0,
          events |-> <<"scraping_started", "scraping_failed">>, d |-> d]

(***************************************************************************)
(* scrape_source: what follows one attempt (loop index a) that ended as r. *)
(* next = "return" | "retry" | "raise"; wait is the sleep before a retry.  *)
(***************************************************************************)
after_attempt(r, a) ==
    IF r.raised = "none" THEN [next |-> "return", wait |-> 0]
    ELSE IF r.raised = "HTTPStatusError"
    THEN IF r.status_code = 429 /\ a < settings.max_retries - 1
         THEN [next |-> "retry", wait |-> retry_delay * (a + 1)]
         ELSE [next |-> "raise", wait |-> 0]
    ELSE IF a < settings.max_retries - 1
         THEN [next |-> "retry", wait |-> retry_delay]
         ELSE [next |-> "raise", wait |-> 0]


(***************************************************************************)
(* scrape_all_sources: the merge after gather()                            *)
(***************************************************************************)
RECURSIVE InsertDesc(_, _)
\* x placed behind every element whose relevance_score is >= its own
InsertDesc(sorted, x) ==
    IF sorted = <<>> THEN <<x>>
    ELSE IF Head(sorted).relevance_score >= x.relevance_score
         THEN <<Head(sorted)>> \o InsertDesc(Tail(sorted), x)
         ELSE <<x>> \o sorted

\* mutant of SortByRelevance: the list is left in the order of the merge
SortByRelevance_unsorted(q) == q

RECURSIVE SortByRelevance(_)
\* list.sort(key=relevance_score, reverse=True): descending and stable
SortByRelevance(q) ==
    IF q = <<>> THEN <<>>
    ELSE InsertDesc(SortByRelevance(SubSeq(q, 1, Len(q) - 1)), q[Len(q)])

\* mutant of extend: assignment in place of extend
extend_replaces(all, result) == result

\* all_articles.extend(result)
extend(all, result) == all \o result

RECURSIVE merge_results(_, _, _)
\* lines 427-440: the loop over gather's results, from index i on
merge_results(results, i, acc) ==
    IF i > Len(results) THEN acc
    ELSE LET name == sources[i].name
         IN  IF results[i].kind = "list"
             THEN merge_results(results, i + 1,
                    [all_articles       |-> extend(acc.all_articles, results[i].articles),
                     successful_sources |-> acc.successful_sources + 1,
                     failed_sources     |-> acc.failed_sources,
                     articles_by_source |-> [acc.articles_by_source EXCEPT
                                                ![i] = Len(results[i].articles)]])
             ELSE merge_results(results, i + 1,
                    [acc EXCEPT !.failed_sources = @ + 1,
                                !.articles_by_source = [@ EXCEPT ![i] = 0]])

NoReport == [successful_sources |-> 0, failed_sources |-> 0,
             articles_by_source |-> [i \in Src |-> 0]]

\* mutant of sort_and_limit: the list is not cut to max_output
sort_and_limit_uncut(all, cfg) ==
    IF cfg.sort_by_relevance THEN SortByRelevance(all) ELSE all

\* lines 442-448: sort if configured, then all_articles[:max_output]
sort_and_limit(all, cfg) ==
    Take(IF cfg.sort_by_relevance THEN SortByRelevance(all) ELSE all,
         cfg.max_articles_output)

(***************************************************************************)
(* WebScraper: initial state and actions                                   *)
(***************************************************************************)
\* max_articles_output of the runs: the default 50 and a value small enough to cut
OutputLimits == {1, 50}

ScraperIdle(cfg) ==
    /\ settings = cfg
    /\ seen_urls = {}
    /\ scr_pc = "idle"
    /\ task_pc = [i \in Src |-> "none"]
    /\ attempt = [i \in Src |-> 0]
    /\ fetch_log = [i \in Src |-> <<>>]
    /\ signals = [i \in Src |-> <<>>]
    /\ waits = [i \in Src |-> <<>>]
    /\ task_result = [i \in Src |-> [kind |-> "none", articles |-> <<>>]]
    /\ new_once = {}
    /\ new_again = {}
    /\ passed = {}
    /\ report = NoReport
    /\ all_articles = <<>>

DefaultSettings ==
    [deduplicate |-> TRUE, sort_by_relevance |-> TRUE, max_articles_output |-> 50,
     max_retries |-> max_retries]

\* no direct call of the scorer is under way
NoArticle == [title |-> {}, excerpt |-> {}]
ScorerIdle ==
    /\ score_args = [a |-> NoArticle, b |-> NoArticle]
    /\ score_result = [done |-> FALSE, a |-> 0, b |-> 0]

\* no direct call of the prioritizer is under way
RankerIdle ==
    /\ rank_in = <<>>
    /\ rank_out = [done |-> FALSE, articles |-> <<>>]
    /\ rank_top = [done |-> FALSE, count |-> 0, articles |-> <<>>]

\* no direct call of the analyzer is under way
AnalyzerIdle ==
    /\ an_in = <<>>
    /\ an_log = <<>>
    /\ an_out = <<>>
    /\ an_pc = "idle"

\* no direct call of an ActionBalanceTracker method was made
NoTrackerOp == [op |-> "none", action_name |-> "", metadata |-> Meta({}),
                planned |-> Meta({}), pre |-> <<>>, data |-> Meta({}), total |-> 0]
TrackerIdle == tracker_op = NoTrackerOp

\* no element or entry is being looked at
NoElement == [broken |-> FALSE, title_len |-> 0, title |-> {}, link |-> "",
              excerpt |-> {}]
ParserIdle ==
    /\ parse_in = [source |-> 1, element |-> NoElement]
    /\ parse_out = [done |-> FALSE, accepted |-> FALSE, title_len |-> 0, link |-> ""]

\* no direct call is under way; the scraper has the default weights
CallsIdle ==
    /\ scoring_weights = DefaultScoringWeights
    /\ ScorerIdle
    /\ RankerIdle
    /\ AnalyzerIdle
    /\ TrackerIdle
    /\ ParserIdle

\* lines 412-425: the tasks are created and gather() awaits them
ScrapeAllStart ==
    /\ scr_pc = "idle"
    /\ scr_pc' = "gathering"
    /\ task_pc' = [i \in Src |-> "pending"]
    /\ UNCHANGED <<settings, seen_urls, attempt, fetch_log, signals, waits, task_result,
                   new_once, new_again, passed, report, all_articles>>
    /\ UNCHANGED <<ledger_vars, call_vars>>

\* One attempt (loop index a) of source i's scrape_source, from the fetch
\* outcome o to the next await or to the end of the task.
RunAttempt(i, a, o) ==
    LET d0 == [seen |-> seen_urls, articles |-> <<>>, once |-> new_once,
               again |-> new_again, passed |-> passed]
    IN  \E r \in {IF sources[i].type = "rss"
                  THEN _scrape_rss(o, i, d0, settings.deduplicate)
                  ELSE _scrape_web(o, i, d0, settings.deduplicate)} :
        \E n \in {after_attempt(r, a)} :
            /\ seen_urls' = r.d.seen
            /\ new_once' = r.d.once
            /\ new_again' = r.d.again
            /\ passed' = r.d.passed
            /\ attempt' = [attempt EXCEPT ![i] = a]
            /\ fetch_log' = [fetch_log EXCEPT ![i] = Append(@, o.kind)]
            /\ signals' = [signals EXCEPT ![i] = @ \o r.events]
            /\ IF n.next = "return"
               THEN /\ task_result' = [task_result EXCEPT
                            ![i] = [kind |-> "list", articles |-> r.d.articles]]
                    /\ task_pc' = [task_pc EXCEPT ![i] = "done"]
                    /\ UNCHANGED waits
               ELSE IF n.next = "retry"
               THEN /\ waits' = [waits EXCEPT ![i] = Append(@, n.wait)]
                    /\ task_pc' = [task_pc EXCEPT ![i] = "backoff"]
                    /\ UNCHANGED task_result
               ELSE /\ task_result' = [task_result EXCEPT
                            ![i] = [kind |-> "exception", articles |-> <<>>]]
                    /\ task_pc' = [task_pc EXCEPT ![i] = "done"]
                    /\ UNCHANGED waits

\* The task of source i gets to run.  With max_retries < 1 range(max_retries)
\* is empty: the loop of line 132 is not entered and line 153 returns [].
\* Otherwise a feed is fetched and parsed without an await (feedparser.parse
\* blocks), and a listing source goes to sleep(delay).
TaskStart(i) ==
    /\ scr_pc = "gathering"
    /\ task_pc[i] = "pending"
    /\ IF settings.max_retries < 1
       THEN /\ task_result' = [task_result EXCEPT
                                   ![i] = [kind |-> "list", articles |-> <<>>]]
            /\ task_pc' = [task_pc EXCEPT ![i] = "done"]
            /\ UNCHANGED <<seen_urls, attempt, fetch_log, signals, waits,
                           new_once, new_again, passed>>
       ELSE IF sources[i].type = "rss"
       THEN \E o \in RssOutcomes : RunAttempt(i, 0, o)
       ELSE /\ task_pc' = [task_pc EXCEPT ![i] = "delay"]
            /\ signals' = [signals EXCEPT ![i] = Append(@, "scraping_started")]
            /\ UNCHANGED <<seen_urls, attempt, fetch_log, waits, task_result,
                           new_once, new_again, passed>>
    /\ UNCHANGED <<settings, scr_pc, report, all_articles>>
    /\ UNCHANGED <<ledger_vars, call_vars>>

\* A sleep of source i's task ends: sleep(delay) leads to client.get; a retry
\* sleep leads to the next iteration of scrape_source's loop.
SleepDone(i) ==
    /\ scr_pc = "gathering"
    /\ task_pc[i] \in {"delay", "backoff"}
    /\ IF task_pc[i] = "delay"
       THEN /\ task_pc' = [task_pc EXCEPT ![i] = "get"]
            /\ UNCHANGED <<seen_urls, attempt, fetch_log, signals, waits, task_result,
                           new_once, new_again, passed>>
       ELSE IF sources[i].type = "rss"
       THEN \E o \in RssOutcomes : RunAttempt(i, attempt[i] + 1, o)
       ELSE /\ task_pc' = [task_pc EXCEPT ![i] = "delay"]
            /\ attempt' = [attempt EXCEPT ![i] = @ + 1]
            /\ signals' = [signals EXCEPT ![i] = Append(@, "scraping_started")]
            /\ UNCHANGED <<seen_urls, fetch_log, waits, task_result, new_once, new_again, passed>>
    /\ UNCHANGED <<settings, scr_pc, report, all_articles>>
    /\ UNCHANGED <<ledger_vars, call_vars>>

\* client.get of source i returns or raises; the rest of _scrape_web and of
\* scrape_source's iteration runs without an await.
GetReturns(i) ==
    /\ scr_pc = "gathering"
    /\ task_pc[i] = "get"
    /\ \E o \in WebOutcomes : RunAttempt(i, attempt[i], o)
    /\ UNCHANGED <<settings, scr_pc, report, all_articles>>
    /\ UNCHANGED <<ledger_vars, call_vars>>

\* gather() returns when every task has ended; lines 427-481
GatherDone ==
    /\ scr_pc = "gathering"
    /\ \A i \in Src : task_pc[i] = "done"
    /\ LET m == merge_results(task_result, 1,
                    [all_articles |-> <<>>, successful_sources |-> 0,
                     failed_sources |-> 0,
                     articles_by_source |-> [i \in Src |-> 0]])
       IN  /\ all_articles' = sort_and_limit(m.all_articles, settings)
           /\ report' = [successful_sources |-> m.successful_sources,
                         failed_sources |-> m.failed_sources,
                         articles_by_source |-> m.articles_by_source]
    /\ scr_pc' = "returned"
    /\ UNCHANGED <<settings, seen_urls, task_pc, attempt, fetch_log, signals, waits,
                   task_result, new_once, new_again, passed>>
    /\ UNCHANGED <<ledger_vars, call_vars>>

\* scrape_all_sources is called once more on the same WebScraper after a run
\* has returned (lines 412-425 again): the locals of the call and the records
\* kept of a run start afresh; self.seen_urls is assigned in __init__ only
\* (line 31), so it is what the earlier runs left.
ScrapeAllAgain ==
    /\ scr_pc = "returned"
    /\ scr_pc' = "gathering"
    /\ task_pc' = [i \in Src |-> "pending"]
    /\ attempt' = [i \in Src |-> 0]
    /\ task_result' = [i \in Src |-> [kind |-> "none", articles |-> <<>>]]
    /\ report' = NoReport
    /\ all_articles' = <<>>
    /\ fetch_log' = [i \in Src |-> <<>>]
    /\ signals' = [i \in Src |-> <<>>]
    /\ waits' = [i \in Src |-> <<>>]
    /\ new_once' = {}
    /\ new_again' = {}
    /\ passed' = {}
    /\ UNCHANGED <<settings, seen_urls>>
    /\ UNCHANGED <<ledger_vars, call_vars>>

(***************************************************************************)
(* Specifications                                                          *)
(***************************************************************************)
\* One scrape_all_sources run of a fresh WebScraper (deduplicate left at its
\* default, True), for each max_articles_output and each sort_by_relevance
Init ==
    /\ LedgerIdle(Cr(1000), Len(sources))
    /\ \E dd \in {TRUE}, sr \in BOOLEAN, mo \in OutputLimits :
          ScraperIdle([deduplicate |-> dd, sort_by_relevance |-> sr,
                       max_articles_output |-> mo, max_retries |-> max_retries])
    /\ CallsIdle

Next ==
    \/ ScrapeAllStart
    \/ \E i \in Src : TaskStart(i)
    \/ \E i \in Src : SleepDone(i)
    \/ \E i \in Src : GetReturns(i)
    \/ GatherDone

Spec == Init /\ [][Next]_vars

\* scrape_all_sources runs of one WebScraper with the default settings, one
\* after the other
RunsInit ==
    /\ LedgerIdle(Cr(1000), Len(sources))
    /\ ScraperIdle(DefaultSettings)
    /\ CallsIdle

RunsNext ==
    \/ Next
    \/ ScrapeAllAgain

SpecRuns == RunsInit /\ [][RunsNext]_vars

\* the values 'max_retries' is configured with: none, one, the default
RetryCounts == {0, 1, max_retries}

\* One scrape_all_sources run of a fresh WebScraper for each of them
RetryInit ==
    /\ LedgerIdle(Cr(1000), Len(sources))
    /\ \E n \in RetryCounts : ScraperIdle([DefaultSettings EXCEPT !.max_retries = n])
    /\ CallsIdle

SpecRetry == RetryInit /\ [][Next]_vars

\* Direct calls of a fresh UsageLimiter's methods, in any order, as days pass
LimiterInit ==
    /\ \E limit \in 0..MaxLimit : LedgerIdle(limit, Len(sources))
    /\ ScraperIdle(DefaultSettings)
    /\ CallsIdle

LimiterNext ==
    \/ CheckLimit
    \/ ConsumeCredits
    \/ GetRemainingBalance
    \/ DayRollover

SpecLimiter == LimiterInit /\ [][LimiterNext]_vars

\* One run_pipeline_with_balance of a fresh application, as days pass
PipelineInit ==
    /\ \E limit \in PipelineLimits, n \in 1..MaxSources : LedgerIdle(limit, n)
    /\ ScraperIdle(DefaultSettings)
    /\ CallsIdle

PipelineNext ==
    \/ PipelineStart
    \/ ScrapeReturns
    \/ ExtractOne
    \/ AnalysisReturns
    \/ SummaryReturns
    \/ DayRollover

SpecPipeline == PipelineInit /\ [][PipelineNext]_vars

(***************************************************************************)
(* Direct calls of _calculate_relevance_score, for every configuration of  *)
(* the weights and every pair of articles that are equal or differ in one  *)
(* primary term standing in the title of the first and only in the excerpt *)
(* of the second.                                                          *)
(***************************************************************************)
Terms == UNION {keywords[c] : c \in DOMAIN keywords}

\* title and excerpt as the sets of configured terms occurring in them
ScoreArticles == [title : SUBSET Terms, excerpt : SUBSET Terms]

\* 'scoring_weights' sections: the default one among them, and weights and
\* multipliers that are zero or negative
ScoringConfigs ==
    [primary_keyword : {0 - 10, 0, 10, 30}, secondary_keyword : {5},
     tertiary_keyword : {2}, title_multiplier : {0 - 1, 0, 1, 2}]

\* article x with term k taken out of the title and standing in the excerpt
MoveToExcerpt(x, k) == [title |-> x.title \ {k}, excerpt |-> x.excerpt \cup {k}]

\* the articles that differ from x in one primary term of x's title only
TitleToExcerpt(x) == {MoveToExcerpt(x, k) : k \in keywords["primary"] \cap x.title}

ScoreInit ==
    /\ LedgerIdle(Cr(1000), Len(sources))
    /\ ScraperIdle(DefaultSettings)
    /\ scoring_weights \in ScoringConfigs
    /\ score_args \in UNION {{[a |-> x, b |-> y] : y \in {x} \cup TitleToExcerpt(x)} :
                                x \in ScoreArticles}
    /\ score_result = [done |-> FALSE, a |-> 0, b |-> 0]
    /\ RankerIdle
    /\ AnalyzerIdle
    /\ TrackerIdle
    /\ ParserIdle

\* _calculate_relevance_score is called for each of the two articles
ScoreCall ==
    /\ ~score_result.done
    /\ score_result' = [done |-> TRUE,
                        a |-> _calculate_relevance_score(score_args.a),
                        b |-> _calculate_relevance_score(score_args.b)]
    /\ UNCHANGED <<scoring_weights, score_args, score_frame>>

ScoreNext == ScoreCall

SpecScore == ScoreInit /\ [][ScoreNext]_vars

(***************************************************************************)
(* prioritizers/article_prioritizer.py: ArticlePrioritizer.                *)
(* Factor scores (0..10) are integers counted in tenths, the weights in    *)
(* hundredths, so a priority score (0..100) is an integer counted in       *)
(* hundredths of a point: factor * weight * 10 = factor_t * weight_h / 100.*)
(* An article of a batch is [title, source, scraped_at, analysis]:         *)
(*   title      the engagement keywords occurring in the title             *)
(*   scraped_at [kind, age_hours], kind = "missing" (no value), "aware"    *)
(*              (ISO text with a UTC offset, age_hours old), "naive" (ISO  *)
(*              text without offset) or "garbage" (not ISO text)           *)
(*   analysis   [kind, relevance_score, linkedin_post], kind = "absent"    *)
(*              (no analysis key), "malformed" (not a dict) or "dict";     *)
(*              relevance_score is [kind, value], kind = "number" (value   *)
(*              in tenths), "missing" (no such key) or "text" (not a       *)
(*              number); linkedin_post is [words, question, hashtag]       *)
(***************************************************************************)
MaxBatch == 3        \* bound: a batch holds 0..MaxBatch articles

\* self.weights, in hundredths
weights == [relevance |-> 50, recency |-> 25, source_quality |-> 15, engagement |-> 10]

\* self.source_scores, in tenths
source_scores ==
    [name \in {"TechCrunch", "VentureBeat AI", "MIT Technology Review",
               "The Verge", "Wired", "default"} |->
        CASE name = "TechCrunch"            -> 90
          [] name = "VentureBeat AI"        -> 85
          [] name = "MIT Technology Review" -> 100
          [] name = "The Verge"             -> 80
          [] name = "Wired"                 -> 85
          [] OTHER                          -> 70]

engagement_keywords ==
    {"breakthrough", "revolutionary", "game-changing", "announces", "launches",
     "unveils", "first", "new", "innovative", "record", "major", "significant"}

NoPost == [words |-> {}, question |-> FALSE, hashtag |-> FALSE]

\* article.get("analysis", {}).get("linkedin_post", "")
linkedin_post(article) ==
    IF article.analysis.kind = "dict" THEN article.analysis.linkedin_post ELSE NoPost

\* _calculate_recency_score, in tenths.  fromisoformat raises on text that is
\* not ISO, and the subtraction of a naive time from the aware now() raises
\* TypeError; the bare except turns both into 5.0.
_calculate_recency_score(article) ==
    LET t == article.scraped_at
    IN  IF t.kind = "missing" THEN 50
        ELSE IF t.kind # "aware" THEN 50
        ELSE IF t.age_hours < 6 THEN 100
        ELSE IF t.age_hours < 24 THEN 80
        ELSE IF t.age_hours < 48 THEN 60
        ELSE IF t.age_hours < 72 THEN 40
        ELSE 20

\* mutant of _calculate_engagement_score: the sum is returned without the cap
_calculate_engagement_score_uncapped(article) ==
    LET post  == linkedin_post(article)
        found == {k \in engagement_keywords : k \in article.title \/ k \in post.words}
    IN  50 + 5 * Cardinality(found)
           + (IF post.question THEN 10 ELSE 0)
           + (IF post.hashtag THEN 5 ELSE 0)

\* _calculate_engagement_score, in tenths
_calculate_engagement_score(article) ==
    LET post  == linkedin_post(article)
        found == {k \in engagement_keywords : k \in article.title \/ k \in post.words}
    IN  Min(50 + 5 * Cardinality(found)
               + (IF post.question THEN 10 ELSE 0)
               + (IF post.hashtag THEN 5 ELSE 0),
            100)

\* the try block of calculate_priority_score raises: .get on an analysis that
\* is not a dict, or relevance_score * 0.5 on a value that is not a number
scoring_raises(article) ==
    \/ article.analysis.kind = "malformed"
    \/ article.analysis.kind = "dict" /\ article.analysis.relevance_score.kind = "text"

\* article.get("analysis", {}).get("relevance_score", 5.0), in tenths
relevance_of(article) ==
    IF article.analysis.kind = "absent" THEN 50
    ELSE IF article.analysis.relevance_score.kind = "missing" THEN 50
    ELSE article.analysis.relevance_score.value

\* self.source_scores.get(article.get("source", ""), self.source_scores["default"])
source_score_of(article) ==
    IF article.source \in DOMAIN source_scores
    THEN source_scores[article.source] ELSE source_scores["default"]

\* lines 68-73: the weighted sum, in hundredths of a point
total_score(article) ==
    relevance_of(article) * weights.relevance
    + _calculate_recency_score(article) * weights.recency
    + source_score_of(article) * weights.source_quality
    + _calculate_engagement_score(article) * weights.engagement

\* mutant of calculate_priority_score: the sum is returned without min/max
calculate_priority_score_unclamped(article) ==
    IF scoring_raises(article) THEN 5000 ELSE total_score(article)

\* mutant of calculate_priority_score: the except clause returns 0 instead of
\* the medium priority
calculate_priority_score_zero_on_error(article) ==
    IF scoring_raises(article) THEN 0
    ELSE Min(Max(total_score(article), 0), 10000)

\* calculate_priority_score, in hundredths of a point
calculate_priority_score(article) ==
    IF scoring_raises(article) THEN 5000
    ELSE Min(Max(total_score(article), 0), 10000)

RECURSIVE InsertByPriority_before_ties(_, _)
\* mutant of InsertByPriority: x is placed before the elements of equal score
InsertByPriority_before_ties(sorted, x) ==
    IF sorted = <<>> THEN <<x>>
    ELSE IF Head(sorted).priority_score > x.priority_score
         THEN <<Head(sorted)>> \o InsertByPriority_before_ties(Tail(sorted), x)
         ELSE <<x>> \o sorted

RECURSIVE InsertByPriority(_, _)
\* x placed behind every element whose priority_score is >= its own
InsertByPriority(sorted, x) ==
    IF sorted = <<>> THEN <<x>>
    ELSE IF Head(sorted).priority_score >= x.priority_score
         THEN <<Head(sorted)>> \o InsertByPriority(Tail(sorted), x)
         ELSE <<x>> \o sorted

RECURSIVE sorted_by_priority(_)
\* sorted(articles, key=priority_score, reverse=True): descending and stable
sorted_by_priority(q) ==
    IF q = <<>> THEN <<>>
    ELSE InsertByPriority(sorted_by_priority(SubSeq(q, 1, Len(q) - 1)), q[Len(q)])

\* mutant of assign_ranks: the enumeration starts at 0
assign_ranks_from_zero(sorted_articles) ==
    [k \in 1..Len(sorted_articles) |-> [sorted_articles[k] EXCEPT !.priority_rank = k - 1]]

\* lines 185-186: for i, article in enumerate(sorted_articles, 1)
assign_ranks(sorted_articles) ==
    [k \in 1..Len(sorted_articles) |-> [sorted_articles[k] EXCEPT !.priority_rank = k]]

\* lines 172-175: every article gets its score and rank 0; idx is the
\* article's position in the input list, which identifies the dict
score_batch(articles) ==
    [i \in 1..Len(articles) |->
        [idx |-> i, priority_score |-> calculate_priority_score(articles[i]),
         priority_rank |-> 0]]

\* mutant of get_top_articles: the slice starts behind the first article
get_top_articles_skips_first(articles, count) ==
    SubSeq(articles, 2, Min(Len(articles), count + 1))

\* get_top_articles, line 223: articles[:count], count >= 0
get_top_articles(articles, count) ==
    SubSeq(articles, 1, Min(Len(articles), count))

\* the counts get_top_articles is called with: none, fewer and more articles
\* than a batch holds (the pipeline's 10 and the default 5 among them)
TopCounts == {0, 1, 2, 5, 10}

\* prioritize_articles: the list it returns
prioritize_articles(articles) ==
    assign_ranks(sorted_by_priority(score_batch(articles)))

\* ---- the articles of the batches ----
AgeHours == {0, 5, 6, 23, 24, 47, 48, 71, 72, 100}
Timestamps == {[kind |-> k, age_hours |-> 0] : k \in {"missing", "naive", "garbage"}}
              \cup {[kind |-> "aware", age_hours |-> h] : h \in AgeHours}

\* analysis relevance: absent, not a number, and numbers inside and outside 0..10
Relevances == {[kind |-> k, value |-> 0] : k \in {"missing", "text"}}
              \cup {[kind |-> "number", value |-> v] : v \in {0 - 1000, 0, 75, 100, 1000}}
Posts == [words : {{}, {"first"}, engagement_keywords}, question : BOOLEAN,
          hashtag : BOOLEAN]
NoRelevance == [kind |-> "missing", value |-> 0]
Analyses == {[kind |-> k, relevance_score |-> NoRelevance, linkedin_post |-> NoPost] :
                 k \in {"absent", "malformed"}}
            \cup [kind : {"dict"}, relevance_score : Relevances, linkedin_post : Posts]

RankArticles ==
    [title : {{}, {"new"}, engagement_keywords},
     source : {"TechCrunch", "MIT Technology Review", "Some Blog"},
     scraped_at : Timestamps,
     analysis : Analyses]

\* the articles the batches of several articles are made of: scores that
\* differ, scores that tie, a score from the exception handler, and sums below
\* 0 and above 100
RankPool ==
    {x \in RankArticles :
        /\ x.title = {}
        /\ x.source \in {"TechCrunch", "Some Blog"}
        /\ x.scraped_at.kind = "naive"
        /\ x.analysis.linkedin_post = NoPost
        /\ x.analysis.relevance_score.kind # "text"
        /\ x.analysis.relevance_score.value \in {0 - 1000, 0, 75, 1000}}

RankInit ==
    /\ LedgerIdle(Cr(1000), Len(sources))
    /\ ScraperIdle(DefaultSettings)
    /\ scoring_weights = DefaultScoringWeights
    /\ ScorerIdle
    /\ rank_in \in (SeqsUpTo(RankPool, MaxBatch) \cup {<<x>> : x \in RankArticles})
    /\ rank_out = [done |-> FALSE, articles |-> <<>>]
    /\ rank_top = [done |-> FALSE, count |-> 0, articles |-> <<>>]
    /\ AnalyzerIdle
    /\ TrackerIdle
    /\ ParserIdle

\* prioritize_articles(rank_in) is called and returns
PrioritizeCall ==
    /\ ~rank_out.done
    /\ rank_out' = [done |-> TRUE, articles |-> prioritize_articles(rank_in)]
    /\ UNCHANGED <<rank_in, rank_top, rank_frame>>

\* get_top_articles(count) is called on the list prioritize_articles returned
GetTopArticles ==
    /\ rank_out.done
    /\ ~rank_top.done
    /\ \E count \in TopCounts :
          rank_top' = [done |-> TRUE, count |-> count,
                       articles |-> get_top_articles(rank_out.articles, count)]
    /\ UNCHANGED <<rank_in, rank_out, rank_frame>>

RankNext ==
    \/ PrioritizeCall
    \/ GetTopArticles

SpecRank == RankInit /\ [][RankNext]_vars


(***************************************************************************)
(* analyzers/ai_analyzer.py: AIAnalyzer.  A response text (summary) is     *)
(* [score_line, body]: score_line is what follows "RELEVANCE_SCORE:" on    *)
(* its line, [kind, value] with kind = "absent" (no such marker), "text"   *)
(* (not a number) or "number" (value in tenths); body names the rest.      *)
(* An article is [title, analysis]; analysis is [kind, linkedin_post,      *)
(* relevance_score, error, tokens_used] with kind = "none" (no analysis    *)
(* key yet), "completed" (the dict of lines 83-88, which has no error key) *)
(* or "failed" (the dict of lines 104-108, which has no tokens_used key).  *)
(***************************************************************************)
ScoreLines == {[kind |-> k, value |-> 0] : k \in {"absent", "text"}}
              \cup {[kind |-> "number", value |-> v] : v \in {0 - 30, 0, 75, 100, 150}}

\* the empty string
EmptyText == [score_line |-> [kind |-> "absent", value |-> 0], body |-> ""]

\* what self.client.chat.completions.create does for one article: it raises,
\* it returns a response without choices, or it returns a response
Completions ==
    {[kind |-> "raises", cause |-> c, summary |-> EmptyText, total_tokens |-> 0] :
        c \in {"timeout", "rate limit"}}
    \cup {[kind |-> "no_choices", cause |-> "", summary |-> EmptyText, total_tokens |-> 0]}
    \cup {[kind |-> "response", cause |-> "",
           summary |-> [score_line |-> l, body |-> "post"], total_tokens |-> 500] :
            l \in ScoreLines}

\* _extract_relevance_score, in tenths: float() raising leads to the default
_extract_relevance_score(summary) ==
    IF summary.score_line.kind = "number"
    THEN Min(Max(summary.score_line.value, 0), 100)
    ELSE 50

\* str(e) of the exception the try block of analyze_article ended with
failure_cause(o) ==
    IF o.kind = "no_choices" THEN "list index out of range" ELSE o.cause

NoAnalysis == [kind |-> "none", linkedin_post |-> EmptyText, relevance_score |-> 0,
               error |-> "", tokens_used |-> 0]

\* mutant of analyze_article: an exception of the try block is not caught
analyze_article_reraises(article, o) ==
    IF o.kind = "response"
    THEN [raised |-> "none",
          article |-> [article EXCEPT !.analysis =
                          [kind |-> "completed", linkedin_post |-> o.summary,
                           relevance_score |-> _extract_relevance_score(o.summary),
                           error |-> "", tokens_used |-> o.total_tokens]]]
    ELSE [raised |-> "Exception", article |-> article]

\* analyze_article for completion outcome o: the article it returns.  The
\* except clause (lines 90-108) handles every Exception of the try block.
analyze_article(article, o) ==
    IF o.kind = "response"
    THEN [raised |-> "none",
          article |-> [article EXCEPT !.analysis =
                          [kind |-> "completed", linkedin_post |-> o.summary,
                           relevance_score |-> _extract_relevance_score(o.summary),
                           error |-> "", tokens_used |-> o.total_tokens]]]
    ELSE [raised |-> "none",
          article |-> [article EXCEPT !.analysis =
                          [kind |-> "failed", linkedin_post |-> EmptyText,
                           relevance_score |-> 0, error |-> failure_cause(o),
                           tokens_used |-> 0]]]

\* ---- direct calls of batch_analyze ----
AnalyzeTitles == {"t1", "t2"}
AnalyzeArticles == [title : AnalyzeTitles, analysis : {NoAnalysis}]

AnalyzeInit ==
    /\ LedgerIdle(Cr(1000), Len(sources))
    /\ ScraperIdle(DefaultSettings)
    /\ scoring_weights = DefaultScoringWeights
    /\ ScorerIdle
    /\ RankerIdle
    /\ an_in \in SeqsUpTo(AnalyzeArticles, MaxBatch)
    /\ an_log = <<>>
    /\ an_out = <<>>
    /\ an_pc = "idle"
    /\ TrackerIdle
    /\ ParserIdle

\* lines 172-182: batch_analyze is called
BatchAnalyzeStart ==
    /\ an_pc = "idle"
    /\ an_pc' = "running"
    /\ UNCHANGED <<an_in, an_log, an_out>>
    /\ UNCHANGED analyzer_frame

\* lines 183-185: one iteration of the loop, with the completion outcome o
AnalyzeOne ==
    /\ an_pc = "running"
    /\ Len(an_out) < Len(an_in)
    /\ \E o \in Completions :
        \E r \in {analyze_article(an_in[Len(an_out) + 1], o)} :
            /\ an_log' = Append(an_log, o)
            /\ IF r.raised = "none"
               THEN /\ an_out' = Append(an_out, r.article)
                    /\ UNCHANGED an_pc
               ELSE /\ an_pc' = "raised"
                    /\ UNCHANGED an_out
    /\ UNCHANGED an_in
    /\ UNCHANGED analyzer_frame

\* lines 187-199: the loop is over, batch_analyze returns analyzed_articles
BatchAnalyzeReturn ==
    /\ an_pc = "running"
    /\ Len(an_out) = Len(an_in)
    /\ an_pc' = "returned"
    /\ UNCHANGED <<an_in, an_log, an_out>>
    /\ UNCHANGED analyzer_frame

AnalyzeNext ==
    \/ BatchAnalyzeStart
    \/ AnalyzeOne
    \/ BatchAnalyzeReturn

SpecAnalyze == AnalyzeInit /\ [][AnalyzeNext]_vars


(***************************************************************************)
(* Direct calls of the ActionBalanceTracker methods, in any order, as days *)
(* pass.  tracker_op records the last call: pre is session_actions before  *)
(* it, data the dict track_action handed to track_signal, total the value  *)
(* returned by estimate_action_cost or get_session_cost.                   *)
(***************************************************************************)
MaxTracked == 2      \* bound: track_action is called directly up to MaxTracked times
MaxCount == 2        \* bound: a planned action has a count in 0..MaxCount

\* action names of the direct calls: one of the table, one that is not in it
TrackedNames == {"analyze_article", "pipeline_start"}

\* metadata of the direct calls: none, a key of the pipeline's calls, and a
\* key that the event's own data has as well
TrackedMetadata == {Meta({}), Meta({"tokens"}), Meta({"cumulative_cost"})}

\* planned_actions of the direct calls: every map of counts over these names,
\* one of which is not in the table, and the map the pipeline uses
PlanNames == {"extract_content", "custom_action"}
Plans == UNION {[names -> 0..MaxCount] : names \in SUBSET PlanNames}
         \cup {planned_actions}

TrackerInit ==
    /\ LedgerIdle(Cr(1000), Len(sources))
    /\ ScraperIdle(DefaultSettings)
    /\ CallsIdle

tracker_frame == <<usage_limiter, today, last_op, num_sources, pl_pc, pl_articles,
                   pl_extracted, pl_analyzed, pl_result, pl_error>>

TrackAction ==
    /\ Len(session_actions) < MaxTracked
    /\ \E action_name \in TrackedNames, metadata \in TrackedMetadata :
        /\ session_actions' = track_action(session_actions, action_name, today, metadata)
        /\ tracker_op' = [op |-> "track_action", action_name |-> action_name,
                          metadata |-> metadata, planned |-> Meta({}),
                          pre |-> session_actions,
                          data |-> track_signal_data(session_actions', action_name,
                                                     metadata),
                          total |-> 0]
    /\ UNCHANGED <<tracker_frame, scraper_vars, score_vars, rank_vars, analyzer_vars,
                   parse_vars>>

EstimateActionCost ==
    /\ \E planned \in Plans :
        tracker_op' = [op |-> "estimate_action_cost", action_name |-> "",
                       metadata |-> Meta({}), planned |-> planned,
                       pre |-> session_actions, data |-> Meta({}),
                       total |-> estimate_action_cost(planned)]
    /\ UNCHANGED <<session_actions, tracker_frame, scraper_vars, score_vars,
                   rank_vars, analyzer_vars, parse_vars>>

GetSessionCost ==
    /\ tracker_op' = [op |-> "get_session_cost", action_name |-> "",
                      metadata |-> Meta({}), planned |-> Meta({}),
                      pre |-> session_actions, data |-> Meta({}),
                      total |-> get_session_cost(session_actions)]
    /\ UNCHANGED <<session_actions, tracker_frame, scraper_vars, score_vars,
                   rank_vars, analyzer_vars, parse_vars>>

TrackerNext ==
    \/ TrackAction
    \/ EstimateActionCost
    \/ GetSessionCost
    \/ DayRollover

SpecTracker == TrackerInit /\ [][TrackerNext]_vars


(***************************************************************************)
(* From an element of a listing page (_parse_article) or an entry of a     *)
(* feed (lines 274-282) to an accepted article.  An element or entry is    *)
(* [broken, title_len, title, link, excerpt]: title_len is len() of the    *)
(* title text, 0 when there is none; title and excerpt are the configured  *)
(* terms occurring in the texts; link is "" when there is none; broken     *)
(* says that reading the element raises.                                   *)
(***************************************************************************)
min_title_length == 10     \* the literal of line 342

\* a relative link made absolute (lines 334-336)
AbsoluteLink(link) == IF link = "/rel" THEN "https://s1.com/rel" ELSE link

NoParsed == [ok |-> FALSE, title_len |-> 0, title |-> {}, link |-> "", excerpt |-> {}]

\* _parse_article: the dict it returns, or None (ok = FALSE)
_parse_article(element) ==
    IF element.broken THEN NoParsed
    ELSE IF element.title_len = 0 \/ element.link = ""
            \/ element.title_len < min_title_length
    THEN NoParsed
    ELSE [ok |-> TRUE, title_len |-> element.title_len, title |-> element.title,
          link |-> AbsoluteLink(element.link), excerpt |-> element.excerpt]

\* lines 274-282: the dict built from a feed entry
rss_article(entry) ==
    [ok |-> TRUE, title_len |-> entry.title_len, title |-> entry.title,
     link |-> entry.link, excerpt |-> entry.excerpt]

\* lines 194-202 and 274-291 for one element or entry of source i, with an
\* empty seen_urls: the parsed article and whether it was appended
process_element(i, element) ==
    LET feed     == sources[i].type = "rss"
        a        == IF feed THEN rss_article(element) ELSE _parse_article(element)
        admitted == IF feed THEN a.link # "" ELSE a.ok
        d        == process_candidate(
                        [link |-> a.link, title |-> a.title, excerpt |-> a.excerpt], i,
                        [seen |-> {}, articles |-> <<>>, once |-> {}, again |-> {},
                         passed |-> {}], TRUE)
    IN  [done |-> TRUE, accepted |-> admitted /\ Len(d.articles) = 1,
         title_len |-> a.title_len, link |-> a.link]

\* ---- the elements and entries ----
TitleLengths == {0, 5, 9, 10, 40}
TitleTerms == {{}, {"ai"}, {"ai", "agent"}}
\* the characters the terms take up in a title
TermsLength(t) == IF t = {} THEN 0 ELSE IF t = {"ai"} THEN 2 ELSE 8
Elements ==
    {e \in [broken : BOOLEAN, title_len : TitleLengths, title : TitleTerms,
            link : {"", "/rel", "u1"}, excerpt : {{}, {"ai", "machine learning"}}] :
        e.title_len >= TermsLength(e.title)}

ParseInit ==
    /\ LedgerIdle(Cr(1000), Len(sources))
    /\ ScraperIdle(DefaultSettings)
    /\ scoring_weights = DefaultScoringWeights
    /\ ScorerIdle
    /\ RankerIdle
    /\ AnalyzerIdle
    /\ TrackerIdle
    /\ parse_in \in {x \in [source : Src, element : Elements] :
                        sources[x.source].type = "rss" => ~x.element.broken}
    /\ parse_out = [done |-> FALSE, accepted |-> FALSE, title_len |-> 0, link |-> ""]

\* the loop body of _scrape_web or _scrape_rss runs for the element
ProcessElement ==
    /\ ~parse_out.done
    /\ parse_out' = process_element(parse_in.source, parse_in.element)
    /\ UNCHANGED <<parse_in, parse_frame>>

ParseNext == ProcessElement

SpecParse == ParseInit /\ [][ParseNext]_vars


(***************************************************************************)
(* Properties.  Those about UsageLimiter calls are read off last_op: while *)
(* last_op names a call, usage_limiter is the limiter as that call left it *)
(* (only the clock may have moved since).                                  *)
(***************************************************************************)
RolledOver == last_op.now # last_op.pre.day_start

\* C1 (as claimed): in a run of run_pipeline_with_balance that passed the
\* pre-flight check_limit, daily_usage never exceeds daily_limit.
C1_UsageWithinLimit ==
    (pl_pc # "idle" /\ pl_error # "Daily credit limit would be exceeded")
        => usage_limiter.daily_usage <= usage_limiter.daily_limit

\* C2: check_limit(x) returns true iff daily_usage + x <= daily_limit, where
\* daily_usage is the usage the comparison reads; with limit 10 and usage 6,
\* check_limit(5) is false and check_limit(4) is true; when the date has not
\* changed the call leaves daily_usage and day_start as they were.
C2_CheckLimitIff ==
    last_op.op = "check_limit" =>
        /\ last_op.ok <=>
              (usage_limiter.daily_usage + last_op.arg <= usage_limiter.daily_limit)
        /\ ~RolledOver =>
              /\ usage_limiter = last_op.pre
              /\ last_op.ok <=>
                    (last_op.pre.daily_usage + last_op.arg <= last_op.pre.daily_limit)
              /\ (last_op.pre.daily_limit = 10 /\ last_op.pre.daily_usage = 6) =>
                    /\ last_op.arg = 5 => ~last_op.ok
                    /\ last_op.arg = 4 => last_op.ok

\* C2 witness: limit 10, usage 6, same day, check_limit(5) returned false
C2_Witness ==
    /\ last_op.op = "check_limit"
    /\ ~RolledOver
    /\ last_op.pre.daily_limit = 10
    /\ last_op.pre.daily_usage = 6
    /\ last_op.arg = 5
    /\ ~last_op.ok

\* C3: a check_limit call made on a date other than day_start resets
\* daily_usage to 0 and sets day_start to the new date before comparing, so
\* its result is (x <= daily_limit) whatever was consumed the day before.
C3_RolloverResets ==
    (last_op.op = "check_limit" /\ RolledOver) =>
        /\ usage_limiter.daily_usage = 0
        /\ usage_limiter.day_start = last_op.now
        /\ usage_limiter.daily_limit = last_op.pre.daily_limit
        /\ last_op.ok <=> (last_op.arg <= last_op.pre.daily_limit)

\* C3 witness: the previous day's usage alone would have failed the check
C3_Witness ==
    /\ last_op.op = "check_limit"
    /\ RolledOver
    /\ last_op.pre.daily_usage + last_op.arg > last_op.pre.daily_limit
    /\ last_op.ok
    /\ usage_limiter.daily_usage = 0

\* C4 (as claimed): once the date has rolled over, every ledger operation acts
\* on a usage that no longer includes the previous day's credits:
\* consume_credits(c) leaves a usage of c, get_remaining_balance returns the
\* whole limit, check_limit(x) compares x alone with the limit.
C4_EveryOperationSeesNewWindow ==
    RolledOver =>
        /\ last_op.op = "consume_credits" =>
              usage_limiter.daily_usage = last_op.arg
        /\ last_op.op = "get_remaining_balance" =>
              last_op.bal = Max(0, last_op.pre.daily_limit)
        /\ last_op.op = "check_limit" =>
              (last_op.ok <=> (last_op.arg <= last_op.pre.daily_limit))

\* C5: consume_credits(c) adds exactly c to daily_usage, also when the new
\* usage exceeds daily_limit, and changes neither daily_limit nor day_start.
C5_ConsumeAddsExactly ==
    last_op.op = "consume_credits" =>
        /\ usage_limiter.daily_usage = last_op.pre.daily_usage + last_op.arg
        /\ usage_limiter.daily_limit = last_op.pre.daily_limit
        /\ usage_limiter.day_start = last_op.pre.day_start

\* C5 witness: a consume_credits call that took the usage over the limit
C5_Witness ==
    /\ last_op.op = "consume_credits"
    /\ last_op.arg > 0
    /\ last_op.pre.daily_usage <= last_op.pre.daily_limit
    /\ usage_limiter.daily_usage > usage_limiter.daily_limit


(***************************************************************************)
(* Properties of one scrape_all_sources run                                *)
(***************************************************************************)
\* the accepted articles with link l in the list source i's task returned
AcceptedAt(i, l) ==
    {k \in 1..Len(task_result[i].articles) : task_result[i].articles[k].link = l}

\* how many accepted articles, over all sources, have link l
RECURSIVE AcceptedCount(_, _)
AcceptedCount(l, i) ==
    IF i > Len(sources) THEN 0
    ELSE Cardinality(AcceptedAt(i, l)) + AcceptedCount(l, i + 1)

RECURSIVE TotalAccepted(_)
TotalAccepted(i) ==
    IF i > Len(sources) THEN 0
    ELSE (IF task_result[i].kind = "list" THEN Len(task_result[i].articles) ELSE 0)
         + TotalAccepted(i + 1)

Returned == scr_pc = "returned"

\* the outcome of the last fetch source i's task made
LastFetch(i) ==
    IF fetch_log[i] = <<>> THEN "none" ELSE fetch_log[i][Len(fetch_log[i])]

\* C6: with deduplication enabled and for any interleaving of the source
\* tasks, a link offered by candidates scoring at or above the threshold (in
\* one source's task or in several) is accepted exactly once, and no two
\* articles of the merged result share a link.
C6_OneAcceptedPerLink ==
    settings.deduplicate =>
        /\ \A l \in Links :
              /\ AcceptedCount(l, 1) <= 1
              /\ (\E i \in Src : <<i, l>> \in passed) => AcceptedCount(l, 1) = 1
        /\ Returned =>
              \A m, n \in 1..Len(all_articles) :
                  all_articles[m].link = all_articles[n].link => m = n

\* C6 witness: two different sources offered the same link, both scoring at or
\* above the threshold, and the run returned with that link accepted once
C6_Witness ==
    /\ Returned
    /\ settings.max_articles_output > Cardinality(Links)
    /\ \E l \in Links : \E i, j \in Src :
          /\ i # j
          /\ <<i, l>> \in passed
          /\ <<j, l>> \in passed
          /\ AcceptedCount(l, 1) = 1
          /\ Cardinality({m \in 1..Len(all_articles) : all_articles[m].link = l}) = 1

\* C7 (as claimed): for every link the first admission check of a run returns
\* true and every later check for the same link returns false, whatever the
\* candidates score.
C7_NewOnlyOnce == new_again = {}

\* C8 (as claimed): when one source's fetch ends in a permanent error while the
\* others succeed, the report counts that source as failed and not as
\* successful, with 0 articles for it.
C8_FailedSourceReported ==
    Returned =>
        \A i \in Src :
            (/\ LastFetch(i) = "http_error"
             /\ \A j \in Src \ {i} : LastFetch(j) = "ok") =>
                /\ report.failed_sources = 1
                /\ report.successful_sources = Len(sources) - 1
                /\ report.articles_by_source[i] = 0

\* every accepted article of every task that returned a list is in the result
AllAcceptedReturned ==
    \A i \in Src :
        task_result[i].kind = "list" =>
            \A k \in 1..Len(task_result[i].articles) :
                \E m \in 1..Len(all_articles) :
                    all_articles[m] = task_result[i].articles[k]

\* C9 (as claimed): the result of scrape_all_sources contains the accepted
\* articles of every source whose task completed normally.
C9_ResultHoldsAllAccepted == Returned => AllAcceptedReturned

\* C9 (amended): scrape_all_sources returns only when every task has ended,
\* whatever fetches failed; every task hands back a list; the result holds
\* min(total accepted, max_articles_output) articles, and all the accepted
\* articles of every task when their total is at most max_articles_output.
C9_SiblingsComplete ==
    Returned =>
        /\ \A i \in Src : task_pc[i] = "done" /\ task_result[i].kind = "list"
        /\ Len(all_articles) = Min(TotalAccepted(1), settings.max_articles_output)
        /\ TotalAccepted(1) <= settings.max_articles_output => AllAcceptedReturned

\* C9 witness: a source's fetch failed, and the result holds articles that two
\* other sources' tasks accepted
C9_Witness ==
    /\ Returned
    /\ \E i, j, k \in Src :
          /\ i # j /\ i # k /\ j # k
          /\ LastFetch(i) \in {"http429", "http_error", "network", "error"}
          /\ Len(task_result[j].articles) > 0
          /\ Len(task_result[k].articles) > 0
    /\ AllAcceptedReturned

\* C10 (as claimed): a fetch that gets HTTP 429 or a transient network failure
\* is attempted again until it succeeds or max_retries attempts were made, with
\* a wait of retry_delay * k after failed attempt k.
C10_RetriedWithLinearBackoff ==
    \A i \in Src :
        (task_pc[i] = "done" /\ LastFetch(i) \in {"http429", "network"}) =>
            /\ Len(fetch_log[i]) = max_retries
            /\ waits[i] = [k \in 1..(max_retries - 1) |-> retry_delay * k]


\* the positions of source i's fetches that got an HTTP error status other
\* than 429
HttpErrorAt(i) == {p \in 1..Len(fetch_log[i]) : fetch_log[i][p] = "http_error"}

\* C11: a fetch that gets an HTTP error status other than 429 is not retried:
\* the source's task ends after that one request, without a wait, with zero
\* articles; the run returns all the same, with that source at 0 articles in
\* the report and the articles the other sources' tasks accepted in the result
\* (as far as max_articles_output admits them).
C11_HttpErrorNotRetried ==
    \A i \in Src :
        HttpErrorAt(i) # {} =>
            /\ task_pc[i] = "done"
            /\ fetch_log[i] = <<"http_error">>
            /\ waits[i] = <<>>
            /\ task_result[i].articles = <<>>
            /\ Returned =>
                  /\ report.articles_by_source[i] = 0
                  /\ TotalAccepted(1) <= settings.max_articles_output
                        => AllAcceptedReturned

\* C11 witness: a source got an HTTP error status, and the run returned with
\* articles of another source
C11_Witness ==
    /\ Returned
    /\ \E i, j \in Src :
          /\ i # j
          /\ fetch_log[i] = <<"http_error">>
          /\ task_result[i].articles = <<>>
          /\ Len(task_result[j].articles) > 0
          /\ \E m \in 1..Len(all_articles) : all_articles[m].source = sources[j].name


\* the source of that name is a feed
IsFeed(name) == \E i \in Src : sources[i].name = name /\ sources[i].type = "rss"

\* C12: every article a source's task accepted, and so every article in the
\* result of scrape_all_sources, has relevance_score >= min_relevance_score,
\* for listing and feed sources alike.
C12_ResultAboveThreshold ==
    /\ \A i \in Src : \A k \in 1..Len(task_result[i].articles) :
          task_result[i].articles[k].relevance_score >= min_relevance_score
    /\ \A m \in 1..Len(all_articles) :
          all_articles[m].relevance_score >= min_relevance_score

\* C12 witness: a candidate scoring below the threshold was turned away (its
\* link was admitted as new a second time), and the run returned articles of a
\* listing source and of a feed source
C12_Witness ==
    /\ Returned
    /\ new_again # {}
    /\ \E m, n \in 1..Len(all_articles) :
          /\ IsFeed(all_articles[m].source)
          /\ ~IsFeed(all_articles[n].source)


(***************************************************************************)
(* Properties of _calculate_relevance_score                                *)
(***************************************************************************)
\* the category weights and the title multiplier are non-negative
NonNegativeWeights ==
    /\ scoring_weights.primary_keyword >= 0
    /\ scoring_weights.secondary_keyword >= 0
    /\ scoring_weights.tertiary_keyword >= 0
    /\ scoring_weights.title_multiplier >= 0

\* the sum the scorer's loops reach for an article, before normalisation
RawScore(article) == SumCategories(DOMAIN keywords, article.title, article.excerpt).score

\* C13: for every article and every configuration whose category weights and
\* title multiplier are non-negative, _calculate_relevance_score returns a
\* value in [0, 1].
C13_ScoreInUnitRange ==
    (score_result.done /\ NonNegativeWeights) =>
        /\ 0 <= score_result.a /\ score_result.a <= 1000
        /\ 0 <= score_result.b /\ score_result.b <= 1000

\* C13 witness: the matches of an article add up to more than 50 and its score
\* is 1.0
C13_Witness ==
    /\ score_result.done
    /\ NonNegativeWeights
    /\ RawScore(score_args.a) > NORMALIZATION
    /\ score_result.a = 1000

\* C15: an article in which no keyword of any category occurs in the title or
\* the excerpt gets relevance score exactly 0.0, under every configuration of
\* the weights.
C15_NoMatchScoresZero ==
    score_result.done =>
        /\ (score_args.a.title \cup score_args.a.excerpt) \cap Terms = {}
              => score_result.a = 0
        /\ (score_args.b.title \cup score_args.b.excerpt) \cap Terms = {}
              => score_result.b = 0

\* C15 witness: an article without any match was scored 0.0 under weights
\* that are not the default ones
C15_Witness ==
    /\ score_result.done
    /\ score_args.a = NoArticle
    /\ scoring_weights # DefaultScoringWeights
    /\ score_result.a = 0

\* the second article differs from the first in one primary term only, which
\* stands in the title of the first and only in the excerpt of the second
DiffersByTitleTerm ==
    /\ score_args.b # score_args.a
    /\ score_args.b \in TitleToExcerpt(score_args.a)

Ranked == rank_out.articles

C19_RanksArePositions ==
    rank_out.done =>
        /\ Len(Ranked) = Len(rank_in)
        /\ {Ranked[k].idx : k \in 1..Len(Ranked)} = 1..Len(rank_in)
        /\ \A k \in 1..Len(Ranked) :
              /\ Ranked[k].priority_rank = k
              /\ Ranked[k].priority_score = calculate_priority_score(rank_in[Ranked[k].idx])
        /\ \A m, n \in 1..Len(Ranked) :
              m < n => Ranked[m].priority_score >= Ranked[n].priority_score

\* C19 witness: a batch of three articles with three different scores, given
\* in increasing order of score, was returned in the reverse order
C19_Witness ==
    /\ rank_out.done
    /\ Len(rank_in) = 3
    /\ Ranked[1].idx = 3 /\ Ranked[2].idx = 2 /\ Ranked[3].idx = 1
    /\ Ranked[1].priority_score > Ranked[2].priority_score
    /\ Ranked[2].priority_score > Ranked[3].priority_score
    /\ Ranked[3].priority_rank = 3

\* C20: in the output of prioritize_articles any two articles with equal
\* priority_score stand in the same relative order as in the input list.
C20_TiesKeepInputOrder ==
    rank_out.done =>
        \A m, n \in 1..Len(Ranked) :
            (m < n /\ Ranked[m].priority_score = Ranked[n].priority_score)
                => Ranked[m].idx < Ranked[n].idx

\* C20 witness: two different articles with equal scores came second and third
\* in the input behind an article of lower score, and were returned first
\* and second in their input order
C20_Witness ==
    /\ rank_out.done
    /\ Len(rank_in) = 3
    /\ rank_in[2] # rank_in[3]
    /\ Ranked[1].idx = 2 /\ Ranked[2].idx = 3 /\ Ranked[3].idx = 1
    /\ Ranked[1].priority_score = Ranked[2].priority_score
    /\ Ranked[2].priority_score > Ranked[3].priority_score


\* the accepted articles of the tasks of sources i.., in the order of the merge
RECURSIVE AcceptedFrom(_)
AcceptedFrom(i) ==
    IF i > Len(sources) THEN <<>>
    ELSE (IF task_result[i].kind = "list" THEN task_result[i].articles ELSE <<>>)
         \o AcceptedFrom(i + 1)

\* the list is in non-increasing relevance_score order
SortedByRelevance(q) ==
    \A m, n \in 1..Len(q) : m < n => q[m].relevance_score >= q[n].relevance_score

\* the result holds accepted articles only, and no accepted article left out
\* scores higher than one that is in
HoldsHighest ==
    LET accepted == AcceptedFrom(1)
        IsIn(a) == \E m \in 1..Len(all_articles) : all_articles[m] = a
    IN  /\ \A m \in 1..Len(all_articles) :
              \E k \in 1..Len(accepted) : accepted[k] = all_articles[m]
        /\ \A k \in 1..Len(accepted) :
              ~IsIn(accepted[k]) =>
                  \A m \in 1..Len(all_articles) :
                      all_articles[m].relevance_score >= accepted[k].relevance_score

ListingOffers(l) == {i \in Src : sources[i].type = "web" /\ <<i, l>> \in passed}
FeedOffers(l) == {i \in Src : sources[i].type = "rss" /\ <<i, l>> \in passed}

\* C18 (as claimed): for fixed source responses the returned sequence is the
\* same for every order in which the source tasks complete.  Then it is the
\* sequence of the run in which the listing fetches complete in configured
\* order, where a link that only listing sources offer is accepted by, and
\* attributed to, the first of them.
C18_SameForEveryOrder ==
    Returned =>
        \A m \in 1..Len(all_articles) :
            LET l == all_articles[m].link
            IN  (FeedOffers(l) = {} /\ ListingOffers(l) # {}) =>
                    all_articles[m].source =
                        sources[CHOOSE i \in ListingOffers(l) :
                                    \A j \in ListingOffers(l) : i <= j].name

\* C21: an article whose scoring raises an exception (a malformed analysis
\* field, a relevance that is not a number) gets priority_score 50.0;
\* prioritize_articles returns all the same, with every article of the batch
\* in the list, every other article at its own clamped weighted sum, and every
\* article, the raising one included, at the rank of its position.
C21_RaisingArticleGetsDefault ==
    rank_out.done =>
        /\ {Ranked[k].idx : k \in 1..Len(Ranked)} = 1..Len(rank_in)
        /\ \A k \in 1..Len(Ranked) :
              LET x == rank_in[Ranked[k].idx]
              IN  /\ scoring_raises(x) => Ranked[k].priority_score = 5000
                  /\ ~scoring_raises(x) =>
                        Ranked[k].priority_score = Min(Max(total_score(x), 0), 10000)
                  /\ Ranked[k].priority_rank = k

\* C21 witness: the article in the middle of a batch of three has a malformed
\* analysis; it was returned at 50.0 in second place, between an article
\* scored above 50 and one scored below
C21_Witness ==
    /\ rank_out.done
    /\ Len(rank_in) = 3
    /\ rank_in[2].analysis.kind = "malformed"
    /\ ~scoring_raises(rank_in[1]) /\ ~scoring_raises(rank_in[3])
    /\ Ranked[2].idx = 2 /\ Ranked[2].priority_score = 5000
    /\ Ranked[1].priority_score > 5000 /\ Ranked[1].priority_rank = 1
    /\ Ranked[3].priority_score < 5000 /\ Ranked[3].priority_rank = 3

(***************************************************************************)
(* Properties of AIAnalyzer.batch_analyze                                  *)
(***************************************************************************)
\* the chat-completion call failed for the k-th article
AnalysisFailed(k) == an_log[k].kind # "response"

\* C22: when the chat-completion call fails for an article, analyze_article
\* does not raise: the article goes on with analysis relevance score 0, an
\* empty generated text and the cause of the failure recorded; batch_analyze
\* returns one analysed article per input article, in input order.
C22_FailedAnalysisDegrades ==
    /\ an_pc # "raised"
    /\ Len(an_out) = Len(an_log)
    /\ \A k \in 1..Len(an_out) :
          /\ an_out[k].title = an_in[k].title
          /\ an_out[k].analysis.kind # "none"
          /\ AnalysisFailed(k) =>
                /\ an_out[k].analysis.relevance_score = 0
                /\ an_out[k].analysis.linkedin_post = EmptyText
                /\ an_out[k].analysis.error = failure_cause(an_log[k])
                /\ an_out[k].analysis.error # ""
    /\ an_pc = "returned" => Len(an_out) = Len(an_in)

\* C22 witness: the call failed for the second of three different articles,
\* and batch_analyze returned the three in input order
C22_Witness ==
    /\ an_pc = "returned"
    /\ Len(an_in) = 3
    /\ an_in[1].title # an_in[2].title
    /\ ~AnalysisFailed(1) /\ AnalysisFailed(2) /\ ~AnalysisFailed(3)
    /\ an_out[2].analysis.error = "timeout"
    /\ an_out[1].analysis.kind = "completed" /\ an_out[3].analysis.kind = "completed"

(***************************************************************************)
(* Properties of run_pipeline_with_balance                                 *)
(***************************************************************************)
\* the run got past the pre-flight check and has returned
RanAndReturned == pl_pc = "done" /\ pl_error # "Daily credit limit would be exceeded"

\* C23 (as claimed): a run that got past the pre-flight check returns a
\* failure if and only if acquisition returned no articles (the extraction
\* loop then ran for no article); a failure of a later step, storage included,
\* does not make the run a failure.
C23_FailsOnlyWithoutArticles ==
    RanAndReturned => (pl_result = "failure" <=> pl_extracted = 0)

\* the run was turned away by the pre-flight check_limit
Blocked == pl_error = "Daily credit limit would be exceeded"

\* C24: when the pre-flight check_limit on the estimated cost fails, the run
\* returns a failure at once: nothing is scraped, extracted, analysed or
\* ranked (the only action recorded is pipeline_start), and the step that
\* makes the check leaves daily_usage as it was.
C24_BlockedRunDoesNothing ==
    /\ [](Blocked =>
            /\ pl_pc = "done" /\ pl_result = "failure"
            /\ pl_articles = 0 /\ pl_extracted = 0 /\ pl_analyzed = 0
            /\ Len(session_actions) = 1
            /\ session_actions[1].action = "pipeline_start"
            /\ get_session_cost(session_actions) = Cr(1)
            /\ scr_pc = "idle" /\ an_pc = "idle" /\ ~rank_out.done)
    /\ [][Blocked' => usage_limiter'.daily_usage = usage_limiter.daily_usage]_vars

\* C24 witness: a run under a limit of 100 credits, below the estimate of 155,
\* was turned away on the day after the limiter was created
C24_Witness ==
    /\ Blocked
    /\ pl_pc = "done"
    /\ usage_limiter.daily_limit = Cr(100)
    /\ usage_limiter.daily_limit < estimate_action_cost(planned_actions)
    /\ usage_limiter.day_start = 1

(***************************************************************************)
(* Properties of ActionBalanceTracker                                      *)
(***************************************************************************)
\* the static cost table in credits, and 1 credit for any other action
UnitCost(action_name) ==
    CASE action_name = "scrape_source"    -> Cr(1)
      [] action_name = "extract_content"  -> Cr(1) \div 2
      [] action_name = "analyze_article"  -> Cr(10)
      [] action_name = "generate_summary" -> Cr(15)
      [] action_name = "prioritize_batch" -> Cr(2)
      [] action_name = "api_call"         -> Cr(5)
      [] OTHER                            -> Cr(1)

\* unit cost times count of one planned action, 0 when it is not planned
PlannedCost(planned, action_name) ==
    IF action_name \in DOMAIN planned
    THEN UnitCost(action_name) * planned[action_name] ELSE 0

\* C25: estimate_action_cost returns as total_estimated_cost the sum over the
\* planned actions of unit cost times count, with the unit cost of the static
\* table and 1 for an action that is not in it (155 for the pipeline's plan);
\* the call changes neither the recorded session actions, nor the session
\* cost, nor the limiter.
C25_EstimateIsSum ==
    /\ [](tracker_op.op = "estimate_action_cost" =>
            /\ tracker_op.total =
                  PlannedCost(tracker_op.planned, "scrape_source")
                  + PlannedCost(tracker_op.planned, "extract_content")
                  + PlannedCost(tracker_op.planned, "analyze_article")
                  + PlannedCost(tracker_op.planned, "prioritize_batch")
                  + PlannedCost(tracker_op.planned, "custom_action")
            /\ tracker_op.planned = planned_actions => tracker_op.total = Cr(155)
            /\ session_actions = tracker_op.pre)
    /\ [][tracker_op'.op = "estimate_action_cost" =>
            /\ session_actions' = session_actions
            /\ get_session_cost(session_actions') = get_session_cost(session_actions)
            /\ usage_limiter' = usage_limiter]_vars

\* C25 witness: with two actions already recorded, a plan of one
\* extract_content and two actions that are not in the table was estimated at
\* 2.5 credits
C25_Witness ==
    /\ tracker_op.op = "estimate_action_cost"
    /\ Len(session_actions) = 2
    /\ DOMAIN tracker_op.planned = {"extract_content", "custom_action"}
    /\ tracker_op.planned["extract_content"] = 1
    /\ tracker_op.planned["custom_action"] = 2
    /\ tracker_op.total = Cr(2) + HalfCr

C27_AnalysisCutToBalance ==
    /\ [][(pl_pc = "extracting" /\ pl_pc' = "analyzing") =>
            LET failed == usage_limiter'.daily_usage + Cr(10) * pl_articles
                              > usage_limiter'.daily_limit
                balance == get_remaining_balance(usage_limiter')
            IN  /\ pl_result' = "none"
                /\ failed => /\ pl_articles' = balance \div Cr(10)
                             /\ pl_articles' < pl_articles
                             /\ Cr(10) * pl_articles' <= balance
                /\ ~failed => pl_articles' = pl_articles]_vars
    /\ [][(pl_pc = "analyzing" /\ pl_pc' = "summarizing") =>
            /\ pl_analyzed' = pl_articles
            /\ usage_limiter'.daily_usage - usage_limiter.daily_usage
                  = Cr(10) * pl_analyzed' + Cr(2)
            /\ Cr(10) * pl_analyzed' <= get_remaining_balance(usage_limiter)]_vars

\* C27 witness: under a limit of 155 credits, 17 articles were scraped and
\* extracted (11.5 credits used, 143.5 left), the check for 170 credits failed
\* and 14 articles were analysed
C27_Witness ==
    /\ pl_pc = "summarizing"
    /\ usage_limiter.daily_limit = Cr(155)
    /\ pl_extracted = 17
    /\ pl_analyzed = 14
    /\ pl_result = "none"

(***************************************************************************)
(* Properties of the way from an element or entry to an accepted article   *)
(***************************************************************************)
\* C28 (as claimed): every accepted article, of a listing source or of a feed
\* source, has a non-empty link and a title that is there and has at least
\* the minimum title length.
C28_AcceptedHasLinkAndTitle ==
    (parse_out.done /\ parse_out.accepted) =>
        /\ parse_out.link # ""
        /\ parse_out.title_len >= min_title_length

(***************************************************************************)
(* Properties of the factors of the priority score                         *)
(***************************************************************************)
\* the step function of an age in hours, in tenths
StepOfAge(age_hours) ==
    IF age_hours < 6 THEN 100
    ELSE IF age_hours < 24 THEN 80
    ELSE IF age_hours < 48 THEN 60
    ELSE IF age_hours < 72 THEN 40
    ELSE 20

\* C29 (as claimed): for every article of a ranked batch that has a capture
\* timestamp, the recency factor is not the 5 of a missing timestamp, and
\* when the timestamp is a time (with or without a UTC offset, the scraper
\* writes it without) the factor is the step function of the article's age.
C29_RecencyIsStepOfAge ==
    rank_out.done =>
        \A i \in 1..Len(rank_in) :
            LET t == rank_in[i].scraped_at
            IN  t.kind # "missing" =>
                    /\ _calculate_recency_score(rank_in[i]) # 50
                    /\ t.kind \in {"aware", "naive"} =>
                           _calculate_recency_score(rank_in[i]) = StepOfAge(t.age_hours)

\* the engagement factor as the sum of its parts, in tenths
EngagementOf(title, post) ==
    LET n == Cardinality((title \cup post.words) \cap engagement_keywords)
        e == 50 + 5 * n + (IF post.question THEN 10 ELSE 0)
                        + (IF post.hashtag THEN 5 ELSE 0)
    IN  IF e > 100 THEN 100 ELSE e

\* 10 x (0.5 relevance + 0.25 recency + 0.15 source quality + 0.10
\* engagement) clamped to 0..100, in hundredths of a point
WeightedSum(article) ==
    LET has_analysis == article.analysis.kind = "dict"
        relevance == IF has_analysis /\ article.analysis.relevance_score.kind = "number"
                     THEN article.analysis.relevance_score.value ELSE 50
        quality   == CASE article.source = "TechCrunch"            -> 90
                       [] article.source = "VentureBeat AI"        -> 85
                       [] article.source = "MIT Technology Review" -> 100
                       [] article.source = "The Verge"             -> 80
                       [] article.source = "Wired"                 -> 85
                       [] OTHER                                    -> 70
        post      == IF has_analysis THEN article.analysis.linkedin_post ELSE NoPost
        sum       == 50 * relevance + 25 * _calculate_recency_score(article)
                     + 15 * quality + 10 * EngagementOf(article.title, post)
    IN  IF sum < 0 THEN 0 ELSE IF sum > 10000 THEN 10000 ELSE sum

\* C30: every article of a ranked batch whose scoring does not raise carries
\* the clamped weighted sum of its four factors as priority_score: relevance
\* 5.0 without an analysis value, the default quality for an unknown source,
\* engagement 5.0 + 0.5 per keyword + 1.0 for a question mark + 0.5 for a
\* hashtag, capped at 10.0.
C30_PriorityIsWeightedSum ==
    rank_out.done =>
        \A k \in 1..Len(rank_out.articles) :
            LET o == rank_out.articles[k]
            IN  ~scoring_raises(rank_in[o.idx]) =>
                    o.priority_score = WeightedSum(rank_in[o.idx])

\* C30 witness: an article of an unknown source, five hours old, relevance
\* 7.5, with every engagement keyword, a question mark and a hashtag (the
\* engagement sum 12.5 capped at 10) was scored 37.5 + 25 + 10.5 + 10 = 83
C30_Witness ==
    /\ rank_out.done
    /\ Len(rank_in) = 1
    /\ rank_in[1].source = "Some Blog"
    /\ rank_in[1].scraped_at = [kind |-> "aware", age_hours |-> 5]
    /\ rank_in[1].analysis.kind = "dict"
    /\ rank_in[1].analysis.relevance_score = [kind |-> "number", value |-> 75]
    /\ rank_in[1].analysis.linkedin_post =
           [words |-> engagement_keywords, question |-> TRUE, hashtag |-> TRUE]
    /\ rank_out.articles[1].priority_score = 8300

(***************************************************************************)
(* Properties of the keyword contributions                                 *)
(***************************************************************************)
\* what the terms of one category add: the weight times the title multiplier
\* for each term of the title, the weight for each term that is only in the
\* excerpt; [score, matches]
CategoryContribution(category, article) ==
    LET in_title   == Cardinality(keywords[category] \cap article.title)
        in_excerpt == Cardinality((keywords[category] \cap article.excerpt)
                                      \ article.title)
    IN  [score   |-> scoring_weight(category)
                         * (scoring_weights.title_multiplier * in_title + in_excerpt),
         matches |-> in_title + in_excerpt]

\* the relevance score made of the five categories' contributions, in
\* thousandths
ScoreOfContributions(article) ==
    LET p == CategoryContribution("primary", article)
        s == CategoryContribution("secondary", article)
        t == CategoryContribution("tertiary", article)
        d == CategoryContribution("technology", article)
        b == CategoryContribution("business", article)
        raw == p.score + s.score + t.score + d.score + b.score
    IN  IF p.matches + s.matches + t.matches + d.matches + b.matches = 0 THEN 0
        ELSE IF raw >= NORMALIZATION THEN 1000
        ELSE (1000 * raw) \div NORMALIZATION

\* C31: the relevance score is made of one contribution per keyword: weight
\* x title multiplier when the keyword is in the title (in the excerpt too
\* or not), weight when it is only in the excerpt, nothing otherwise; the
\* categories without terms add nothing.
C31_KeywordCountsOnce ==
    score_result.done =>
        /\ score_result.a = ScoreOfContributions(score_args.a)
        /\ score_result.b = ScoreOfContributions(score_args.b)
        /\ \A c \in {"tertiary", "technology", "business"} :
               CategoryContribution(c, score_args.a) = [score |-> 0, matches |-> 0]

\* C31 witness: under the default weights, "ai" in title and excerpt (10 x 2,
\* once) and "agent" in the excerpt only (5) scored 25 / 50 = 0.5
C31_Witness ==
    /\ score_result.done
    /\ scoring_weights = DefaultScoringWeights
    /\ score_args.a = [title |-> {"ai"}, excerpt |-> {"ai", "agent"}]
    /\ score_result.a = 500

(***************************************************************************)
(* Properties of the fetch events                                          *)
(***************************************************************************)
\* source i's fetch call has sent scraping_started and has not returned yet:
\* it sleeps before client.get or awaits the response
FetchOpen(i) == task_pc[i] \in {"delay", "get"}

\* C32: the events of a source are, fetch call after fetch call, one
\* scraping_started followed by exactly one of scraping_completed (the fetch
\* succeeded) and scraping_failed (it failed), for listing and feed sources; a
\* lone scraping_started is last only while its fetch call is under way.
C32_OneStartOneEnd ==
    \A i \in Src :
        LET n == Len(fetch_log[i])
        IN  /\ Len(signals[i]) = 2 * n + (IF FetchOpen(i) THEN 1 ELSE 0)
            /\ \A k \in 1..n :
                   /\ signals[i][2 * k - 1] = "scraping_started"
                   /\ signals[i][2 * k] \in {"scraping_completed", "scraping_failed"}
                   /\ signals[i][2 * k] = "scraping_completed" <=> fetch_log[i][k] = "ok"
            /\ FetchOpen(i) => signals[i][2 * n + 1] = "scraping_started"

\* C32 witness: a run has returned in which a listing fetch failed on the
\* network, another listing fetch got an HTTP error status, and the feed was
\* read
C32_Witness ==
    /\ scr_pc = "returned"
    /\ fetch_log[1] = <<"network">>
    /\ signals[1] = <<"scraping_started", "scraping_failed">>
    /\ fetch_log[2] = <<"http_error">>
    /\ signals[2] = <<"scraping_started", "scraping_failed">>
    /\ signals[3] = <<"scraping_started", "scraping_completed">>

(***************************************************************************)
(* Properties of the runs of one WebScraper                                *)
(***************************************************************************)
\* a run has begun and none of its tasks has run yet
RunBegins == scr_pc = "gathering" /\ \A i \in Src : task_pc[i] = "pending"

\* the links of the articles the tasks of the present run have returned
AcceptedInRun ==
    UNION {{task_result[i].articles[k].link : k \in 1..Len(task_result[i].articles)} :
              i \in Src}

\* C33 (as claimed): when a scrape_all_sources run begins, a first one or a
\* later one on the same WebScraper, seen_urls holds no link; and when a run
\* has returned, every candidate it processed that reached the threshold has
\* its link among the articles accepted in that run (no candidate was
\* rejected for a link of an earlier run).
C33_DedupSetLivesOneRun ==
    /\ RunBegins => seen_urls = {}
    /\ scr_pc = "returned" => \A x \in passed : x[2] \in AcceptedInRun

(***************************************************************************)
(* Properties of scrape_source's loop                                      *)
(***************************************************************************)
\* C34 (as claimed): for every configured max_retries, a scrape_source task
\* that has ended made at least one fetch attempt and at most max_retries.
C34_OneToMaxRetriesAttempts ==
    \A i \in Src :
        task_pc[i] = "done" =>
            /\ Len(fetch_log[i]) >= 1
            /\ Len(fetch_log[i]) <= settings.max_retries

(***************************************************************************)
(* Properties of the report of scrape_all_sources                          *)
(***************************************************************************)
RECURSIVE SumOfCounts(_, _)
\* the per-source counts of sources 1..n added up
SumOfCounts(counts, n) ==
    IF n = 0 THEN 0 ELSE counts[n] + SumOfCounts(counts, n - 1)

\* C35: when scrape_all_sources has returned, the successful and the failed
\* sources add up to the configured sources, every source has one count, that
\* of the articles its task returned (0 for a failed one), and the number of
\* articles returned is the sum of the counts or max_articles_output,
\* whichever is less.
C35_ReportAddsUp ==
    scr_pc = "returned" =>
        /\ report.successful_sources + report.failed_sources = Len(sources)
        /\ DOMAIN report.articles_by_source = 1..Len(sources)
        /\ \A i \in 1..Len(sources) :
               report.articles_by_source[i] =
                   IF task_result[i].kind = "list"
                   THEN Len(task_result[i].articles) ELSE 0
        /\ LET total == SumOfCounts(report.articles_by_source, Len(sources))
           IN  Len(all_articles) = IF total < settings.max_articles_output
                                   THEN total ELSE settings.max_articles_output

\* C35 witness: two sources returned one article each and one none, and
\* max_articles_output = 1 cut the two articles to one
C35_Witness ==
    /\ scr_pc = "returned"
    /\ settings.max_articles_output = 1
    /\ report.articles_by_source = <<1, 0, 1>>
    /\ report.successful_sources = 3
    /\ Len(all_articles) = 1

(***************************************************************************)
(* Properties of seen_urls over the life of a WebScraper                   *)
(***************************************************************************)
\* C36: with deduplication enabled, seen_urls is the set of the links of the
\* articles the source tasks have accepted so far: it is empty before the
\* first run, no step takes a link out of it, and a step adds exactly the
\* links of the articles accepted in that step (a candidate that is rejected
\* or below the threshold adds nothing).
C36_SeenIsAccepted ==
    /\ [](scr_pc = "idle" => seen_urls = {})
    /\ [][settings.deduplicate =>
            /\ seen_urls \subseteq seen_urls'
            /\ seen_urls' \ seen_urls = AcceptedInRun' \ AcceptedInRun]_vars

\* C36 witness: a run has returned in which u1 was accepted and u2 was
\* looked at and not accepted; seen_urls holds u1 only
C36_Witness ==
    /\ scr_pc = "returned"
    /\ settings.deduplicate
    /\ AcceptedInRun = {"u1"}
    /\ "u2" \in new_once
    /\ seen_urls = {"u1"}

(***************************************************************************)
(* Properties of get_remaining_balance                                     *)
(***************************************************************************)
\* daily_limit - daily_usage of the limiter as the last call left it
Headroom == usage_limiter.daily_limit - usage_limiter.daily_usage

\* C38: get_remaining_balance returns daily_limit - daily_usage, or 0 when
\* that is negative, and leaves the limiter as it was; and when check_limit(x)
\* has returned true, x is at most the remaining balance of that moment.
C38_BalanceIsClampedHeadroom ==
    /\ last_op.op = "get_remaining_balance" =>
           /\ usage_limiter = last_op.pre
           /\ last_op.bal = (IF Headroom > 0 THEN Headroom ELSE 0)
           /\ last_op.bal >= 0
    /\ (last_op.op = "check_limit" /\ last_op.ok) =>
           /\ last_op.arg <= Headroom
           /\ last_op.arg <= get_remaining_balance(usage_limiter)

\* C38 witness: get_remaining_balance was called on a limiter whose usage had
\* gone beyond its limit, and returned 0
C38_Witness ==
    /\ last_op.op = "get_remaining_balance"
    /\ usage_limiter.daily_usage > usage_limiter.daily_limit
    /\ last_op.bal = 0

(***************************************************************************)
(* Properties of the pairing of consume_credits and track_action           *)
(***************************************************************************)
\* the session cost without what was recorded for pipeline_start, the first
\* action of a run
MeteredCost(actions) == get_session_cost(actions) - actions[1].cost

\* C37 (as claimed): at every point after the pre-flight check, daily_usage
\* equals the session cost minus the cost recorded for pipeline_start.
C37_UsageIsSessionCost ==
    pl_pc # "idle" => usage_limiter.daily_usage = MeteredCost(session_actions)

\* the limiter's window still begins on the day the run began (the day
\* pipeline_start was recorded and the pre-flight check was made)
WindowOfRunStart == usage_limiter.day_start = session_actions[1].timestamp

\* C37 (amended): after the pre-flight check every step of the run adds the
\* same amount to daily_usage and to the session cost, except the step in
\* which the check before the analysis finds a new date and resets daily_usage
\* to 0; so daily_usage equals the session cost minus the cost recorded for
\* pipeline_start for as long as the limiter's window is the one of the day
\* the run began.
C37_UsageFollowsSessionCost ==
    /\ []((pl_pc # "idle" /\ WindowOfRunStart) =>
              usage_limiter.daily_usage = MeteredCost(session_actions))
    /\ [][pl_pc # "idle" =>
            IF usage_limiter'.day_start # usage_limiter.day_start
            THEN /\ pl_pc = "extracting" /\ pl_pc' = "analyzing"
                 /\ usage_limiter'.daily_usage = 0
            ELSE usage_limiter'.daily_usage - usage_limiter.daily_usage
                     = get_session_cost(session_actions')
                           - get_session_cost(session_actions)]_vars

\* C37 witness: a run with three sources and two articles, all within one
\* day, has ended: 3 + 1 + 20 + 2 + 15 = 41 credits were consumed, and the
\* session cost is 42 with the credit recorded for pipeline_start
C37_Witness ==
    /\ pl_pc = "done"
    /\ pl_result = "success"
    /\ num_sources = 3
    /\ pl_analyzed = 2
    /\ WindowOfRunStart
    /\ usage_limiter.daily_usage = Cr(41)
    /\ get_session_cost(session_actions) = Cr(42)

(***************************************************************************)
(* Properties of the ranked list and of its top                            *)
(***************************************************************************)
\* C39: prioritize_articles returns every article of its input once (the
\* positions of the input, each once), and get_top_articles(ranked, count)
\* returns the first min(count, N) articles of the ranked list in its order,
\* so they carry the ranks 1..min(count, N).
C39_PermutationAndTop ==
    /\ rank_out.done =>
           /\ Len(rank_out.articles) = Len(rank_in)
           /\ \A i \in 1..Len(rank_in) :
                  Cardinality({k \in 1..Len(rank_out.articles) :
                                  rank_out.articles[k].idx = i}) = 1
    /\ rank_top.done =>
           LET n == IF rank_top.count < Len(rank_in) THEN rank_top.count
                    ELSE Len(rank_in)
           IN  /\ Len(rank_top.articles) = n
               /\ \A k \in 1..n :
                      /\ rank_top.articles[k] = rank_out.articles[k]
                      /\ rank_top.articles[k].priority_rank = k

\* C39 witness: of a ranked batch of three articles whose order the sort
\* changed, the top two were taken: ranks 1 and 2
C39_Witness ==
    /\ rank_top.done
    /\ rank_top.count = 2
    /\ Len(rank_in) = 3
    /\ rank_out.articles[1].idx # 1
    /\ Len(rank_top.articles) = 2
    /\ rank_top.articles[1].priority_rank = 1
    /\ rank_top.articles[2].priority_rank = 2

====
